---- MODULE Spec2Model ----
(***************************************************************************)
(* Calibre-Web-Helper: the catalog store (metadata.db), the companion      *)
(* store (app.db) and the library tree, with the commands that reconcile   *)
(* them: add (upsert, shelf add, file placement), delete, add-to-shelf,    *)
(* clean-db (orphan pass) and fix-kobo-sync (repair pass).                 *)
(*                                                                         *)
(* Conventions.  An Option<T> is <<>> (None) or <<v>> (Some(v)); an SQL    *)
(* NULL in an integer column is 0 (rowids start at 1).  A DateTime is an   *)
(* integer count of half-microseconds, a stored timestamp string is the    *)
(* count of whole microseconds it prints.  Tables are sets of rows.  The   *)
(* schemas are not part of the repository: books.id is AUTOINCREMENT as in *)
(* Calibre's schema, every other rowid is max(rowid)+1 as SQLite assigns   *)
(* it, and the companion store runs without foreign-key enforcement, as    *)
(* appdb::open_appdb opens it.                                             *)
(***************************************************************************)
EXTENDS Integers, Sequences, FiniteSets, TLC

VARIABLES
    books,              \* catalog: books rows
    ents,               \* catalog: authors / publishers / series / tags / languages rows
    deps,               \* catalog: link and attribute rows that carry a book column
    bookSeq,            \* catalog: sqlite_sequence of books
    files,              \* library tree: the regular files
    shelf,              \* companion: shelf rows
    book_shelf_link,    \* companion: membership rows
    kobo_reading_state, \* companion
    kobo_bookmark,      \* companion
    kobo_statistics,    \* companion
    kobo_synced_books,  \* companion
    downloads,          \* companion
    archived_book,      \* companion
    cur,                \* the add command in progress (add_book_flow's locals)
    log,                \* history: the last two completed commands
    assigned,           \* history: <<shelf id, order>> pairs handed out so far
    born,               \* history: <<id, title, author_sort, path>> of each book row at its INSERT
    ops                 \* number of commands started; also the wall clock

vars == <<books, ents, deps, bookSeq, files, shelf, book_shelf_link,
          kobo_reading_state, kobo_bookmark, kobo_statistics,
          kobo_synced_books, downloads, archived_book, cur, log, assigned, born, ops>>

catalogVars == <<books, ents, deps, bookSeq>>
appdbVars == <<shelf, book_shelf_link, kobo_reading_state, kobo_bookmark,
               kobo_statistics, kobo_synced_books, downloads, archived_book>>

-----------------------------------------------------------------------------
(* Bounds *)

MaxOps == 3
MaxShelfOps == 3
MaxBookId == 3

-----------------------------------------------------------------------------
(* Generic helpers *)

None == <<>>
Some(v) == <<v>>
is_some(o) == o # <<>>
unwrap(o) == o[1]
unwrap_or(o, d) == IF o = <<>> THEN d ELSE o[1]

MaxOf(S) == IF S = {} THEN 0 ELSE CHOOSE x \in S : \A y \in S : y <= x

\* tx.last_insert_rowid() of a table without AUTOINCREMENT
last_insert_rowid(rows) == MaxOf({r.id : r \in rows}) + 1

\* Utc::now() / Local::now() at command number n, in half-microseconds
Now(n) == 2 * n

\* "%Y-%m-%d %H:%M:%S.%6f": the sub-microsecond part is not printed
format_timestamp_micro(dt) == dt \div 2

\* NaiveDateTime::parse_from_str(.., "%Y-%m-%d %H:%M:%S%.6f") of a stored string
parse_pubdate(s) == 2 * s

-----------------------------------------------------------------------------
(* Identity & sort normalizer *)

\* str::trim and str::split_whitespace on the author names of the model
trim(s) == IF s = " John  Doe " THEN "John  Doe" ELSE s

split_whitespace(s) ==
    CASE s \in {"John Doe", " John  Doe ", "John  Doe"} -> <<"John", "Doe">>
      [] s = "Ann Jr. Lee" -> <<"Ann", "Jr.", "Lee">>
      [] OTHER -> <<s>>

to_ascii_lowercase(t) ==
    CASE t = "Jr." -> "jr."
      [] t = "Sr." -> "sr."
      [] t = "II" -> "ii"
      [] t = "III" -> "iii"
      [] t = "IV" -> "iv"
      [] t = "Jr" -> "jr"
      [] t = "Sr" -> "sr"
      [] OTHER -> t

suffixes == {"Jr.", "Sr.", "II", "III", "IV", "Jr", "Sr"}

RECURSIVE join(_, _)
join(parts, sep) ==
    IF parts = <<>> THEN ""
    ELSE IF Len(parts) = 1 THEN parts[1]
    ELSE parts[1] \o sep \o join(Tail(parts), sep)

\* get_author_sort on the tokens split_whitespace yields
get_author_sort_parts(parts) ==
    LET n == Len(parts)
    IN  IF n > 1
        THEN LET second_last == IF n > 2 THEN parts[n - 1] ELSE ""
                 hit == n > 2 /\ \E s \in suffixes :
                            to_ascii_lowercase(second_last) = to_ascii_lowercase(s)
                 last_name == IF hit THEN second_last \o " " \o parts[n] ELSE parts[n]
                 first_name_end == IF hit THEN n - 2 ELSE n - 1
                 first_name == join(SubSeq(parts, 1, first_name_end), " ")
             IN  IF first_name = "" THEN last_name
                 ELSE last_name \o ", " \o first_name
        ELSE join(parts, " ")

get_author_sort(author) ==
    LET parts == split_whitespace(trim(author))
    IN  IF Len(parts) > 1 THEN get_author_sort_parts(parts) ELSE trim(author)

-----------------------------------------------------------------------------
(* The files offered to the add command: what get_epub_metadata yields for  *)
(* each, its SHA-1, its extension, and whether a cover comes with it.       *)

EpubFile(title, author, hash, ext, pubdate, publisher, series, series_index, language, cover, comment, isbn) ==
    [title |-> title, author |-> author, hash |-> hash, ext |-> ext,
     pubdate |-> pubdate, publisher |-> publisher, series |-> series,
     series_index |-> series_index, language |-> language, cover |-> cover,
     comment |-> comment, isbn |-> isbn]

InputFiles ==
    { EpubFile("Dune", "John Doe", "h1", ".epub", Some(100), None, None, None, Some("eng"), TRUE,
               Some("<h3>A</h3>"), Some("978")),
      EpubFile("Dune", "John Doe", "h2", ".epub", Some(100), None, None, None, Some("eng"), FALSE,
               None, None),
      EpubFile("Dune", "John Doe", "h3", ".kepub.epub", Some(101), Some("Ace"), Some("Saga"),
               Some(2), None, TRUE, None, None),
      EpubFile("Dune", " John  Doe ", "h4", ".epub", None, Some("Ace"), None, None, None, FALSE,
               None, None),
      EpubFile("Emma", "Ann Jr. Lee", "h5", ".kepub", None, None, Some("Saga"), None, None, TRUE,
               None, None),
      EpubFile("Dune", "John Doe", "h6", ".pdf", Some(100), None, None, None, None, FALSE,
               None, None),
      EpubFile("Emma", "John Doe", "h7", ".pdf", None, None, None, None, None, FALSE,
               None, None) }

\* the user table of the companion store: admin is id 1; "bob" has no row
user == { [id |-> 1, name |-> "admin"], [id |-> 2, name |-> "alice"] }

-----------------------------------------------------------------------------
(* Entity resolver (utils.rs) *)

\* query_row yields the first matching row: the lowest rowid of a table scan
first_row(rows) == CHOOSE r \in rows : \A q \in rows : r.id <= q.id

\* variant: the INSERT runs without the lookup
create_without_find(entRows, tbl, name, sort) ==
    LET id == last_insert_rowid({r \in entRows : r.tbl = tbl})
    IN  [ents |-> entRows \cup {[tbl |-> tbl, id |-> id, name |-> name, sort |-> sort]},
         id |-> id, created |-> TRUE]

find_or_create(entRows, tbl, name, sort) ==
    LET found == {r \in entRows : r.tbl = tbl /\ r.name = name}
        id == last_insert_rowid({r \in entRows : r.tbl = tbl})
    IN  IF found # {}
        THEN [ents |-> entRows, id |-> first_row(found).id, created |-> FALSE]
        ELSE [ents |-> entRows \cup {[tbl |-> tbl, id |-> id, name |-> name, sort |-> sort]},
              id |-> id, created |-> TRUE]

find_or_create_by_name(entRows, tbl, name) == find_or_create(entRows, tbl, name, None)

find_or_create_by_name_and_sort(entRows, tbl, name, sort) ==
    find_or_create(entRows, tbl, name, Some(sort))

find_or_create_language(entRows, lang_code) ==
    find_or_create(entRows, "languages", lang_code, None)

-----------------------------------------------------------------------------
(* Catalog upsert engine (calibre.rs) *)

Dep(tbl, book, ref, val) == [tbl |-> tbl, book |-> book, ref |-> ref, val |-> val]

\* variant: the lookup binds the author name as written, not its sort key
existing_book_by_author_name(bks, metadata) ==
    {b \in bks : b.title = metadata.title /\ b.author_sort = metadata.author}

\* "SELECT id, path FROM books WHERE title = ?1 AND author_sort = ?2"
existing_book(bks, metadata) ==
    {b \in bks : b.title = metadata.title
                 /\ b.author_sort = get_author_sort(metadata.author)}

\* the EPUB or KEPUB files of the book directory; read_dir yields them in no
\* particular order and the first one met is taken
get_existing_book_file_path(fl, book_path) ==
    {f \in fl : f.dir = book_path /\ f.ext \in {".epub", ".kepub"}}

\* the name of the entity a link row of the book points at, if any
linked_name(c, link_tbl, ent_tbl, book_id) ==
    LET names == {e.name : e \in {r \in c.ents : r.tbl = ent_tbl
                        /\ \E d \in c.deps : d.tbl = link_tbl /\ d.book = book_id
                                             /\ d.ref = r.id}}
    IN  IF names = {} THEN None ELSE Some(CHOOSE n \in names : TRUE)

get_existing_book_data(c, b) ==
    [id |-> b.id, path |-> b.path,
     pubdate |-> IF is_some(b.pubdate) THEN Some(parse_pubdate(unwrap(b.pubdate))) ELSE None,
     series_index |-> b.series_index,
     publisher |-> linked_name(c, "books_publishers_link", "publishers", b.id),
     series |-> linked_name(c, "books_series_link", "series", b.id)]

determine_changes(existing, new_metadata) ==
    [pubdate_changed |-> existing.pubdate # new_metadata.pubdate,
     series_index_changed |-> existing.series_index # unwrap_or(new_metadata.series_index, 1),
     publisher_changed |-> existing.publisher # new_metadata.publisher,
     series_changed |-> existing.series # new_metadata.series]

has_any_changes(ch) ==
    ch.pubdate_changed \/ ch.series_index_changed \/ ch.publisher_changed \/ ch.series_changed

\* variant: the update path also rewrites the path column from the new metadata
update_book_row_and_path(b, ch, metadata, now_str) ==
    [b EXCEPT !.last_modified = now_str,
              !.path = metadata.author \o "/" \o metadata.title \o " (" \o ToString(b.id) \o ")"]

\* the UPDATE books statement of the update path, or none at all
update_book_row(b, ch, metadata, now_str) ==
    LET idx == unwrap_or(metadata.series_index, 1)
        pub == Some(format_timestamp_micro(unwrap(metadata.pubdate)))
    IN  IF ch.pubdate_changed /\ ch.series_index_changed
        THEN IF is_some(metadata.pubdate)
             THEN [b EXCEPT !.last_modified = now_str, !.pubdate = pub, !.series_index = idx]
             ELSE [b EXCEPT !.last_modified = now_str, !.series_index = idx]
        ELSE IF ch.pubdate_changed
        THEN IF is_some(metadata.pubdate)
             THEN [b EXCEPT !.last_modified = now_str, !.pubdate = pub]
             ELSE b
        ELSE IF ch.series_index_changed
        THEN [b EXCEPT !.last_modified = now_str, !.series_index = idx]
        ELSE [b EXCEPT !.last_modified = now_str]

\* variant: the UPDATE always names the three columns
update_all_columns(ch, metadata) == {"last_modified", "pubdate", "series_index"}

\* the columns in the SET clause of the UPDATE books statement that runs
update_statement_columns(ch, metadata) ==
    IF ch.pubdate_changed /\ ch.series_index_changed
    THEN IF is_some(metadata.pubdate)
         THEN {"last_modified", "pubdate", "series_index"}
         ELSE {"last_modified", "series_index"}
    ELSE IF ch.pubdate_changed
    THEN IF is_some(metadata.pubdate) THEN {"last_modified", "pubdate"} ELSE {}
    ELSE IF ch.series_index_changed
    THEN {"last_modified", "series_index"}
    ELSE {"last_modified"}

\* the link tables the update path runs its DELETE (and INSERT) on
relinked_tables(ch) ==
    (IF ch.publisher_changed THEN {"books_publishers_link"} ELSE {})
    \cup (IF ch.series_changed THEN {"books_series_link"} ELSE {})

update_book_row_writes(ch, metadata) ==
    IF ch.pubdate_changed /\ ~ch.series_index_changed /\ ~is_some(metadata.pubdate)
    THEN 0 ELSE 1

\* variant: the new link is inserted and the old ones stay
link_without_delete(c, book_id, link_tbl, ent_tbl, new_name, with_sort) ==
    LET link(r) == [c EXCEPT !.ents = r.ents,
                             !.deps = @ \cup {Dep(link_tbl, book_id, r.id, "")},
                             !.writes = c.writes + (IF r.created THEN 2 ELSE 1)]
    IN  IF is_some(new_name)
        THEN IF with_sort
             THEN link(find_or_create_by_name_and_sort(c.ents, ent_tbl, unwrap(new_name),
                                                       unwrap(new_name)))
             ELSE link(find_or_create_by_name(c.ents, ent_tbl, unwrap(new_name)))
        ELSE c

\* delete the book's link rows of one table and link it to the new name, if any
relink(c, book_id, link_tbl, ent_tbl, new_name, with_sort) ==
    LET kept == {d \in c.deps : ~(d.tbl = link_tbl /\ d.book = book_id)}
        link(r) == [c EXCEPT !.ents = r.ents,
                             !.deps = kept \cup {Dep(link_tbl, book_id, r.id, "")},
                             !.writes = c.writes + (IF r.created THEN 3 ELSE 2)]
    IN  IF is_some(new_name)
        THEN IF with_sort
             THEN link(find_or_create_by_name_and_sort(c.ents, ent_tbl, unwrap(new_name),
                                                       unwrap(new_name)))
             ELSE link(find_or_create_by_name(c.ents, ent_tbl, unwrap(new_name)))
        ELSE [c EXCEPT !.deps = kept, !.writes = c.writes + 1]

book_path_of(author, title, book_id) ==
    author \o "/" \o title \o " (" \o ToString(book_id) \o ")"

\* the update path: the book row exists
update_path(c, fl, metadata, b, now) ==
    LET cand == get_existing_book_file_path(fl, b.path)
        same == cand # {} /\ (CHOOSE f \in cand : TRUE).hash = metadata.hash
        \* the statements that follow the comparison, given the changes it found
        apply(ch) ==
            LET relink_publisher(c1) ==
                    IF ch.publisher_changed
                    THEN relink(c1, b.id, "books_publishers_link", "publishers",
                                metadata.publisher, FALSE)
                    ELSE c1
                relink_series(c2) ==
                    IF ch.series_changed
                    THEN relink(c2, b.id, "books_series_link", "series", metadata.series, TRUE)
                    ELSE c2
                c3 == relink_series(relink_publisher(
                          [c EXCEPT !.books = (c.books \ {b})
                                        \cup {update_book_row(b, ch, metadata,
                                                               format_timestamp_micro(now))},
                                    !.writes = update_book_row_writes(ch, metadata)]))
            IN  IF same \/ ~has_any_changes(ch)
                THEN [c EXCEPT !.result = "NoChanges", !.book_id = b.id, !.book_path = b.path]
                ELSE [c3 EXCEPT !.result = "Updated", !.book_id = b.id, !.book_path = b.path]
    IN  apply(determine_changes(get_existing_book_data(c, b), metadata))

\* the create path: no book row matches
create_path(c, metadata, now) ==
    LET author_sort_name == get_author_sort(metadata.author)
        now_str == format_timestamp_micro(now)
        book_id == c.seq + 1
        book_path == book_path_of(metadata.author, metadata.title, book_id)
        format == IF metadata.ext \in {".kepub.epub", ".kepub"} THEN "KEPUB" ELSE "EPUB"
        none(entRows) == [ents |-> entRows, id |-> 0, created |-> FALSE]
        language(a) ==
            IF is_some(metadata.language)
            THEN find_or_create_language(a.ents, unwrap(metadata.language)) ELSE none(a.ents)
        publisher(l) ==
            IF is_some(metadata.publisher)
            THEN find_or_create_by_name(l.ents, "publishers", unwrap(metadata.publisher))
            ELSE none(l.ents)
        series(p) ==
            IF is_some(metadata.series)
            THEN find_or_create_by_name_and_sort(p.ents, "series", unwrap(metadata.series),
                                                 unwrap(metadata.series))
            ELSE none(p.ents)
        row == [id |-> book_id, title |-> metadata.title, author_sort |-> author_sort_name,
                path |-> book_path,
                pubdate |-> Some(format_timestamp_micro(unwrap_or(metadata.pubdate, now))),
                series_index |-> unwrap_or(metadata.series_index, 1),
                last_modified |-> now_str, has_cover |-> FALSE]
        rows(a, l, p, s) ==
                {Dep("books_authors_link", book_id, a.id, ""), Dep("data", book_id, 0, format)}
                \cup (IF is_some(metadata.comment)
                      THEN {Dep("comments", book_id, 0, unwrap(metadata.comment))} ELSE {})
                \cup (IF is_some(metadata.language)
                      THEN {Dep("books_languages_link", book_id, l.id, "")} ELSE {})
                \cup (IF is_some(metadata.isbn)
                      THEN {Dep("identifiers", book_id, 0, unwrap(metadata.isbn))} ELSE {})
                \cup (IF is_some(metadata.publisher)
                      THEN {Dep("books_publishers_link", book_id, p.id, "")} ELSE {})
                \cup (IF is_some(metadata.series)
                      THEN {Dep("books_series_link", book_id, s.id, "")} ELSE {})
        committed(entRows, inserted) ==
            [books |-> c.books \cup {row}, ents |-> entRows, deps |-> c.deps \cup inserted,
             seq |-> book_id, result |-> "Created", book_id |-> book_id,
             book_path |-> book_path,
             writes |-> 2 + Cardinality(inserted) + Cardinality(entRows \ c.ents)
                        + (IF is_some(metadata.series) /\ is_some(metadata.series_index)
                           THEN 1 ELSE 0)]
        with_series(a, l, p, s) == committed(s.ents, rows(a, l, p, s))
        with_publisher(a, l, p) == with_series(a, l, p, series(p))
        with_language(a, l) == with_publisher(a, l, publisher(l))
        with_author(a) == with_language(a, language(a))
    IN  IF metadata.ext \notin {".kepub.epub", ".kepub", ".epub"}
        THEN [c EXCEPT !.result = "Error"]     \* bail!: the transaction rolls back
        ELSE with_author(find_or_create_by_name_and_sort(c.ents, "authors", metadata.author,
                                                         author_sort_name))

\* add_book_to_db: the catalog after the transaction, the result, and the number
\* of INSERT / UPDATE / DELETE statements it committed
add_book_to_db(b, e, d, seq, fl, metadata, now) ==
    LET c == [books |-> b, ents |-> e, deps |-> d, seq |-> seq, result |-> "Error",
              book_id |-> 0, book_path |-> "", writes |-> 0]
        found == existing_book(b, metadata)
    IN  IF found # {}
        THEN update_path(c, fl, metadata, first_row(found), now)
        ELSE create_path(c, metadata, now)

\* UpsertResult (models.rs)
is_update(result) == result \in {"Updated", "NoChanges"}

\* variant: file placement is never skipped
never_skip_file_operations(result) == FALSE

skip_file_operations(result) == result = "NoChanges"

-----------------------------------------------------------------------------
(* Collection manager (appdb.rs).  Timestamp columns of the companion store  *)
(* hold the microsecond count of a well-formed string, 0 for NULL, or -1 for *)
(* a string without the six-digit fraction.                                  *)

AppDb(sh, bsl, krs, kbm, kst, ksb) ==
    [shelf |-> sh, book_shelf_link |-> bsl, kobo_reading_state |-> krs,
     kobo_bookmark |-> kbm, kobo_statistics |-> kst, kobo_synced_books |-> ksb]

\* Ok(id) is Some(id), the "User not found" error is None
resolve_user_id(username) ==
    IF is_some(username)
    THEN LET rows == {u \in user : u.name = unwrap(username)}
         IN  IF rows # {} THEN Some(first_row(rows).id) ELSE None
    ELSE Some(1)

\* variant: the INSERT runs without the SELECT for an existing shelf
create_shelf_without_find(shelves, shelf_name, user_id, now_micro) ==
    LET id == last_insert_rowid(shelves)
    IN  [shelf |-> shelves \cup {[id |-> id, name |-> shelf_name, user_id |-> user_id,
                                   kobo_sync |-> FALSE, created |-> now_micro,
                                   last_modified |-> now_micro]},
         id |-> id]

find_or_create_shelf(shelves, shelf_name, user_id, now_micro) ==
    LET rows == {s \in shelves : s.name = shelf_name /\ s.user_id = user_id}
        id == last_insert_rowid(shelves)
    IN  IF rows # {}
        THEN [shelf |-> shelves, id |-> first_row(rows).id]
        ELSE [shelf |-> shelves \cup {[id |-> id, name |-> shelf_name, user_id |-> user_id,
                                       kobo_sync |-> FALSE, created |-> now_micro,
                                       last_modified |-> now_micro]},
              id |-> id]

\* variant: the reading state is inserted without the probe for an existing one
kobo_sync_always_inserts(a, shelf_id, book_id, user_id, now_micro) ==
    LET reading_state_id == last_insert_rowid(a.kobo_reading_state)
        bookmark_id == last_insert_rowid(a.kobo_bookmark)
    IN  IF \E s \in a.shelf : s.id = shelf_id /\ s.kobo_sync
        THEN [a EXCEPT
                !.kobo_reading_state = @ \cup
                    {[id |-> reading_state_id, user_id |-> user_id, book_id |-> book_id,
                      current_bookmark |-> bookmark_id, last_modified |-> now_micro,
                      priority_timestamp |-> now_micro]},
                !.kobo_statistics = @ \cup
                    {[id |-> last_insert_rowid(a.kobo_statistics),
                      kobo_reading_state_id |-> reading_state_id]},
                !.kobo_bookmark = @ \cup
                    {[id |-> bookmark_id, kobo_reading_state_id |-> reading_state_id]}]
        ELSE a

handle_kobo_sync(a, shelf_id, book_id, user_id, now_micro) ==
    LET is_kobo_sync == \E s \in a.shelf : s.id = shelf_id /\ s.kobo_sync
        has_reading_state == \E r \in a.kobo_reading_state :
                                 r.book_id = book_id /\ r.user_id = user_id
        reading_state_id == last_insert_rowid(a.kobo_reading_state)
        bookmark_id == last_insert_rowid(a.kobo_bookmark)
    IN  IF is_kobo_sync /\ ~has_reading_state
        THEN [a EXCEPT
                !.kobo_reading_state = @ \cup
                    {[id |-> reading_state_id, user_id |-> user_id, book_id |-> book_id,
                      current_bookmark |-> bookmark_id, last_modified |-> now_micro,
                      priority_timestamp |-> now_micro]},
                !.kobo_statistics = @ \cup
                    {[id |-> last_insert_rowid(a.kobo_statistics),
                      kobo_reading_state_id |-> reading_state_id]},
                !.kobo_bookmark = @ \cup
                    {[id |-> bookmark_id, kobo_reading_state_id |-> reading_state_id]}]
        ELSE a

\* variant: the membership probe finds nothing
link_never_exists(links, book_id, shelf_id) == FALSE

\* "SELECT 1 FROM book_shelf_link WHERE book_id = ?1 AND shelf = ?2"
link_exists(links, book_id, shelf_id) ==
    \E l \in links : l.book_id = book_id /\ l.shelf = shelf_id

\* variant: the next position is the member count plus one
next_order_by_count(links, shelf_id) == Cardinality({k \in links : k.shelf = shelf_id}) + 1

\* "SELECT COALESCE(MAX("order"), 0) + 1 FROM book_shelf_link WHERE shelf = ?1"
next_order(links, shelf_id) == MaxOf({l.order : l \in {k \in links : k.shelf = shelf_id}}) + 1

\* add_book_to_shelf_core: the companion store after the transaction and
\* Err ("Error"), Ok(true) ("Added") or Ok(false) ("Present")
add_book_to_shelf_core(a, book_id, shelf_name, username, now_micro) ==
    LET \* the statements on the shelf f found or created for the user
        on_shelf(user_id, f) ==
            LET order == next_order(a.book_shelf_link, f.id)
                a1 == [a EXCEPT
                         !.shelf = {IF s.id = f.id THEN [s EXCEPT !.last_modified = now_micro]
                                    ELSE s : s \in f.shelf},
                         !.book_shelf_link = @ \cup {[book_id |-> book_id, shelf |-> f.id,
                                                      order |-> order, date_added |-> now_micro]}]
                a2 == handle_kobo_sync(a1, f.id, book_id, user_id, now_micro)
                a3 == [a2 EXCEPT !.kobo_synced_books = {k \in @ : k.user_id # user_id}]
            IN  IF link_exists(a.book_shelf_link, book_id, f.id)
                THEN [db |-> [a EXCEPT !.shelf = f.shelf], result |-> "Present",
                      shelf_id |-> f.id, order |-> 0]
                ELSE [db |-> a3, result |-> "Added", shelf_id |-> f.id, order |-> order]
        for_user(user_id) ==
            on_shelf(user_id, find_or_create_shelf(a.shelf, shelf_name, user_id, now_micro))
        as_user(uid) ==
            IF ~is_some(uid)
            THEN [db |-> a, result |-> "Error", shelf_id |-> 0, order |-> 0]
            ELSE for_user(unwrap(uid))
    IN  as_user(resolve_user_id(username))

-----------------------------------------------------------------------------
(* File placement driver (epub.rs) *)

\* update_book_files: the library tree afterwards, and Ok(cover_saved) or Err
update_book_files(fl, epub_file, book_path, isUpdate) ==
    LET cleared == IF isUpdate THEN {f \in fl : f.dir # book_path} ELSE fl
        extension == IF epub_file.ext \in {".kepub.epub", ".kepub"} THEN ".kepub" ELSE ".epub"
        name == epub_file.title \o " - " \o epub_file.author
        copied == {f \in cleared : ~(f.dir = book_path /\ f.name = name /\ f.ext = extension)}
                  \cup {[dir |-> book_path, name |-> name, ext |-> extension,
                         hash |-> epub_file.hash]}
        cover == {f \in copied : ~(f.dir = book_path /\ f.name = "cover" /\ f.ext = ".jpg")}
                 \cup {[dir |-> book_path, name |-> "cover", ext |-> ".jpg", hash |-> "cover"]}
    IN  IF epub_file.ext \notin {".kepub.epub", ".kepub", ".epub"}
        THEN [files |-> cleared, ok |-> FALSE, cover_saved |-> FALSE, copied |-> FALSE]
        ELSE [files |-> IF epub_file.cover THEN cover ELSE copied, ok |-> TRUE,
              cover_saved |-> epub_file.cover, copied |-> TRUE]

-----------------------------------------------------------------------------
(* Cascade deletion engine (calibre.rs) *)

\* "DELETE FROM books WHERE id = ?1"; the books_delete_trg trigger of the
\* catalog schema removes the rows of the linked tables
delete_book_catalog(bks, dps, book_id) ==
    [books |-> {b \in bks : b.id # book_id},
     deps |-> IF \E b \in bks : b.id = book_id
              THEN {d \in dps : d.book # book_id} ELSE dps]

\* variant: the membership links go, the collections they emptied stay
delete_book_appdb_links_only(a, book_id) ==
    [db |-> [a EXCEPT !.book_shelf_link = {l \in @ : l.book_id # book_id}],
     ok |-> TRUE, removed_shelves |-> {}]

\* the companion-store statements of delete_book, each in autocommit mode
delete_book_appdb(a, book_id) ==
    LET shelf_ids == {l.shelf : l \in {k \in a.book_shelf_link : k.book_id = book_id}}
        links == {l \in a.book_shelf_link : l.book_id # book_id}
        empty == {id \in shelf_ids : ~\E l \in links : l.shelf = id}
        \* "SELECT name FROM shelf WHERE id = ?1" fails for a link without its shelf
        missing == {id \in empty : ~\E s \in a.shelf : s.id = id}
    IN  [db |-> [a EXCEPT !.book_shelf_link = links,
                          !.shelf = {s \in @ : s.id \notin empty}],
         ok |-> missing = {},
         removed_shelves |-> empty \ missing]

\* variant: a DELETE that removed no row is always an error
delete_refused_when_absent(affected, found) == affected = 0

\* "if affected == 0 && book_info.is_some() { bail!(..) }"
delete_refused(affected, found) == affected = 0 /\ found

\* the filesystem steps of delete_book
delete_book_files(fl, book_path_str) ==
    IF book_path_str = "" THEN fl ELSE {f \in fl : f.dir # book_path_str}

-----------------------------------------------------------------------------
(* Startup timestamp repair (utils.rs), run by main before every command    *)
(* that is given the catalog file                                           *)

fill(ts, now) == IF ts = 0 THEN now ELSE ts

verify_and_repair_books(bks, now_str) ==
    {[b EXCEPT !.pubdate = IF is_some(@) THEN @ ELSE Some(now_str),
               !.last_modified = fill(@, now_str)] : b \in bks}

verify_and_repair_timestamps(a, now_micro) ==
    [a EXCEPT
       !.shelf = {[s EXCEPT !.created = fill(@, now_micro),
                            !.last_modified = fill(@, now_micro)] : s \in @},
       !.book_shelf_link = {[l EXCEPT !.date_added = fill(@, now_micro)] : l \in @},
       !.kobo_reading_state = {[r EXCEPT !.last_modified = fill(@, now_micro),
                                         !.priority_timestamp = fill(@, now_micro)] : r \in @}]

-----------------------------------------------------------------------------
(* State *)

Idle == [phase |-> "idle"]

\* the wall clock of the command being started; the rows of an initial state
\* carry the timestamps 1 and 2
now_local_micro == ops + 3
now_utc == Now(ops + 3)

Push(e) == IF Len(log) < 2 THEN Append(log, e) ELSE <<log[2], e>>

TheAppDb == AppDb(shelf, book_shelf_link, kobo_reading_state, kobo_bookmark,
                  kobo_statistics, kobo_synced_books)

SetAppDb(a) ==
    /\ shelf' = a.shelf
    /\ book_shelf_link' = a.book_shelf_link
    /\ kobo_reading_state' = a.kobo_reading_state
    /\ kobo_bookmark' = a.kobo_bookmark
    /\ kobo_statistics' = a.kobo_statistics
    /\ kobo_synced_books' = a.kobo_synced_books

\* main, lines 48-51: the stores as verify_and_repair_timestamps leaves them
RepairedBooks == verify_and_repair_books(books, format_timestamp_micro(now_utc))
RepairedAppDb == verify_and_repair_timestamps(TheAppDb, now_local_micro)

\* a shelf Calibre-Web created for the admin user with Kobo sync switched on
KoboShelf ==
    [id |-> 1, name |-> "Kobo", user_id |-> 1, kobo_sync |-> TRUE,
     created |-> 1, last_modified |-> 1]

Init ==
    /\ books = {} /\ ents = {} /\ deps = {} /\ bookSeq = 0
    /\ files = {}
    /\ shelf = {KoboShelf}
    /\ book_shelf_link = {}
    /\ kobo_reading_state = {} /\ kobo_bookmark = {} /\ kobo_statistics = {}
    /\ kobo_synced_books = {} /\ downloads = {} /\ archived_book = {}
    /\ cur = Idle /\ log = <<>> /\ assigned = {} /\ born = {} /\ ops = 0

-----------------------------------------------------------------------------
(* The add command (main.rs, add_book_flow) in its three transactions *)

AddEntry(c, ok, placed, writes) ==
    [op |-> "add", input |-> c.input, result |-> c.result, book_id |-> c.book_id,
     book_path |-> c.book_path, writes |-> writes, placed |-> placed, ok |-> ok]

\* calibre::add_book_to_db
AddUpsert(m, sh, un, bound) ==
    /\ cur = Idle /\ ops < bound
    /\ ops' = ops + 1
    /\ SetAppDb(RepairedAppDb)
    /\ \E r \in {add_book_to_db(RepairedBooks, ents, deps, bookSeq, files, m, now_utc)} :
       LET c == [phase |-> IF is_some(sh) THEN "shelf" ELSE "files", input |-> m,
                 shelf_name |-> sh, username |-> un, result |-> r.result,
                 book_id |-> r.book_id, book_path |-> r.book_path, writes |-> r.writes]
       IN  IF r.result = "Error"
           THEN /\ books' = RepairedBooks
                /\ UNCHANGED <<ents, deps, bookSeq, born>>
                /\ cur' = Idle
                /\ log' = Push(AddEntry(c, FALSE, FALSE, 0))
           ELSE /\ books' = r.books /\ ents' = r.ents /\ deps' = r.deps /\ bookSeq' = r.seq
                /\ born' = IF r.result = "Created"
                           THEN born \cup {<<r.book_id, m.title, get_author_sort(m.author),
                                             r.book_path>>}
                           ELSE born
                /\ cur' = c
                /\ UNCHANGED log
    /\ UNCHANGED <<files, downloads, archived_book, assigned>>

\* variant: the error of the shelf step is dropped
shelf_error_ignored(result) == FALSE

\* the `?` on add_book_to_shelf_in_appdb: an Err ends add_book_flow
shelf_step_failed(result) == result = "Error"

\* appdb::add_book_to_shelf_in_appdb
AddShelf ==
    /\ cur.phase = "shelf"
    /\ \E r \in {add_book_to_shelf_core(TheAppDb, cur.book_id, unwrap(cur.shelf_name),
                                          cur.username, ops + 2)} :
          IF shelf_step_failed(r.result)
          THEN /\ UNCHANGED <<appdbVars, assigned>>
               /\ cur' = Idle
               /\ log' = Push(AddEntry(cur, FALSE, FALSE, cur.writes))
          ELSE /\ SetAppDb(r.db)
               /\ assigned' = IF r.result = "Added"
                              THEN assigned \cup {<<r.shelf_id, r.order>>} ELSE assigned
               /\ cur' = [cur EXCEPT !.phase = "files"]
               /\ UNCHANGED log
    /\ UNCHANGED <<catalogVars, files, downloads, archived_book, born, ops>>

\* epub::update_book_files and the has_cover update
AddFiles ==
    /\ cur.phase = "files"
    /\ cur' = Idle
    /\ IF skip_file_operations(cur.result)
       THEN /\ UNCHANGED <<files, books>>
            /\ log' = Push(AddEntry(cur, TRUE, FALSE, cur.writes))
       ELSE \E r \in {update_book_files(files, cur.input, cur.book_path,
                                         is_update(cur.result))} :
                /\ files' = r.files
                /\ books' = IF r.ok /\ r.cover_saved
                            THEN {IF b.id = cur.book_id THEN [b EXCEPT !.has_cover = TRUE] ELSE b
                                  : b \in books}
                            ELSE books
                /\ log' = Push(AddEntry(cur, r.ok, r.copied,
                                        cur.writes + (IF r.ok /\ r.cover_saved THEN 1 ELSE 0)))
    /\ UNCHANGED <<ents, deps, bookSeq, appdbVars, assigned, born, ops>>

-----------------------------------------------------------------------------
(* The delete command (calibre::delete_book) *)

DeleteBook(book_id, with_appdb, bound) ==
    /\ cur = Idle /\ ops < bound
    /\ ops' = ops + 1
    /\ \E bks \in {RepairedBooks}, a0 \in {RepairedAppDb} :
       \E a \in {delete_book_appdb(a0, book_id)} :
       LET info == {b \in bks : b.id = book_id}
           book_path_str == IF info = {} THEN "" ELSE first_row(info).path
           c == delete_book_catalog(bks, deps, book_id)
           refused == delete_refused(Cardinality(bks) - Cardinality(c.books), info # {})
           ok == ~refused /\ (~with_appdb \/ a.ok)
       IN  /\ books' = c.books /\ deps' = c.deps
           /\ IF with_appdb
              THEN /\ SetAppDb(IF refused THEN a0 ELSE a.db)
                   /\ assigned' = IF refused THEN assigned
                                  ELSE {p \in assigned : p[1] \notin a.removed_shelves}
              ELSE UNCHANGED <<appdbVars, assigned>>
           /\ files' = IF ok THEN delete_book_files(files, book_path_str) ELSE files
           /\ log' = Push([op |-> "delete", book_id |-> book_id, found |-> info # {},
                           with_appdb |-> with_appdb, ok |-> ok,
                           shelves |-> {l.shelf : l \in {k \in a0.book_shelf_link :
                                                            k.book_id = book_id}},
                           fs_touched |-> ok /\ delete_book_files(files, book_path_str) # files])
    /\ UNCHANGED <<ents, bookSeq, downloads, archived_book, cur, born>>

-----------------------------------------------------------------------------
(* The add-to-shelf command (main.rs, appdb::add_existing_book_to_shelf) *)

\* utils::validate_foreign_key(calibre_conn, "books", book_id, "book")
validate_foreign_key(bks, id) == id > 0 /\ \E b \in bks : b.id = id

AddToShelf(book_id, shelf_name, username, with_metadata, bound) ==
    /\ cur = Idle /\ ops < bound
    /\ ops' = ops + 1
    /\ \E bks \in {IF with_metadata THEN RepairedBooks ELSE books},
          a0 \in {IF with_metadata THEN RepairedAppDb ELSE TheAppDb} :
       \E r \in {add_book_to_shelf_core(a0, book_id, shelf_name, username, now_local_micro)} :
       LET valid == ~with_metadata \/ validate_foreign_key(bks, book_id)
           done == valid /\ r.result # "Error"
           after == IF done THEN r.db.book_shelf_link ELSE a0.book_shelf_link
           mine == {l \in after : l.book_id = book_id /\ l.shelf = r.shelf_id}
       IN  /\ books' = bks
           /\ SetAppDb(IF done THEN r.db ELSE a0)
           /\ assigned' = IF done /\ r.result = "Added"
                          THEN assigned \cup {<<r.shelf_id, r.order>>} ELSE assigned
           /\ log' = Push([op |-> "add-to-shelf", book_id |-> book_id,
                           shelf_name |-> shelf_name, username |-> username,
                           result |-> IF valid THEN r.result ELSE "Error",
                           shelf_id |-> r.shelf_id, order |-> r.order,
                           reused |-> done /\ r.result = "Added"
                                      /\ <<r.shelf_id, r.order>> \in assigned,
                           rows |-> Cardinality(mine),
                           positions |-> {l.order : l \in mine}])
    /\ UNCHANGED <<ents, deps, bookSeq, files, downloads, archived_book, cur, born>>

-----------------------------------------------------------------------------
(* Specifications *)

ShelfArgs == {<<None, None>>, <<Some("Favorites"), None>>, <<Some("Kobo"), None>>,
              <<Some("Favorites"), Some("bob")>>}

BookIds == 1 .. MaxBookId

\* imports and deletions on a library that starts empty
Next ==
    \/ \E m \in InputFiles, sa \in ShelfArgs : AddUpsert(m, sa[1], sa[2], MaxOps)
    \/ AddShelf
    \/ AddFiles
    \/ \E id \in BookIds : DeleteBook(id, TRUE, MaxOps)

Spec == Init /\ [][Next]_vars

-----------------------------------------------------------------------------
(* Properties of the add and delete commands (Spec) *)

TwoAdds == Len(log) = 2 /\ log[1].op = "add" /\ log[2].op = "add"

\* C1: importing the same unchanged file twice in succession, the placement of
\* the first import having completed, yields "created" and then "no changes"
\* with the same book id, and the second import commits no catalog write and
\* places no file.
C1_Theorem ==
    (TwoAdds /\ log[1].input = log[2].input
             /\ log[1].result = "Created" /\ log[1].ok /\ log[1].placed)
    => /\ log[2].result = "NoChanges"
       /\ log[2].book_id = log[1].book_id
       /\ log[2].writes = 0
       /\ ~log[2].placed

C1_Witness ==
    /\ TwoAdds /\ log[1].input = log[2].input
    /\ log[1].result = "Created" /\ log[1].ok /\ log[1].placed
    /\ log[2].result = "NoChanges" /\ log[2].ok

\* C2: of two successive imports with the same title and author but different
\* file content, the second returns the id and the path of the first; and the
\* path column of every book row is the one written when the row was inserted.
C2_Theorem ==
    /\ (TwoAdds /\ log[1].input.title = log[2].input.title
                /\ log[1].input.author = log[2].input.author
                /\ log[1].input.hash # log[2].input.hash
                /\ log[1].result # "Error" /\ log[2].result # "Error")
       => /\ log[2].book_id = log[1].book_id
          /\ log[2].book_path = log[1].book_path
    /\ \A b \in books : \E t \in born : t[1] = b.id /\ t[4] = b.path

C2_Witness ==
    /\ TwoAdds /\ log[1].input.title = log[2].input.title
    /\ log[1].input.author = log[2].input.author
    /\ log[1].input.hash # log[2].input.hash
    /\ log[1].result = "Created" /\ log[1].ok
    /\ log[2].result = "Updated" /\ log[2].ok /\ log[2].placed
    /\ \E b \in books : b.id = log[2].book_id /\ b.path = log[2].book_path

\* C3: no two book rows share (title, author_sort), after any sequence of
\* imports and deletions on a catalog that began without such a pair; and every
\* book row still carries the id it was inserted with.
C3_Theorem ==
    /\ \A b1, b2 \in books :
          (b1.title = b2.title /\ b1.author_sort = b2.author_sort) => b1.id = b2.id
    /\ \A b \in books : \E t \in born :
          t[1] = b.id /\ t[2] = b.title /\ t[3] = b.author_sort
    /\ \A t1, t2 \in born : t1[1] = t2[1] => t1 = t2

\* a title deleted and imported again, and a second import that met the row
C3_Witness ==
    /\ \E t \in born : /\ \A b \in books : b.id # t[1]
                       /\ \E b \in books : b.title = t[2] /\ b.author_sort = t[3]
    /\ Len(log) = 2 /\ log[2].op = "add" /\ log[2].result = "Created"
    /\ log[1].op = "delete" /\ log[1].found

-----------------------------------------------------------------------------
(* Collection membership on a library that holds two books (SpecShelf) *)

InputByHash(h) == CHOOSE m \in InputFiles : m.hash = h

\* the library after a completed import of m
Imported(st, m) ==
    LET placed(r, f) ==
            [books |-> {IF b.id = r.book_id /\ f.cover_saved THEN [b EXCEPT !.has_cover = TRUE]
                        ELSE b : b \in r.books},
             ents |-> r.ents, deps |-> r.deps, seq |-> r.seq, files |-> f.files,
             born |-> st.born \cup {<<r.book_id, m.title, get_author_sort(m.author),
                                      r.book_path>>}]
        upserted(r) == placed(r, update_book_files(st.files, m, r.book_path, is_update(r.result)))
    IN  upserted(add_book_to_db(st.books, st.ents, st.deps, st.seq, st.files, m, Now(0)))

EmptyLibrary == [books |-> {}, ents |-> {}, deps |-> {}, seq |-> 0, files |-> {}, born |-> {}]

TwoBooks == Imported(Imported(EmptyLibrary, InputByHash("h1")), InputByHash("h5"))

\* the companion store after both books were put on "Favorites"
TwoMembers ==
    LET a0 == AppDb({KoboShelf}, {}, {}, {}, {}, {})
        r1 == add_book_to_shelf_core(a0, 1, "Favorites", None, 1)
    IN  add_book_to_shelf_core(r1.db, 2, "Favorites", None, 2).db

InitShelf ==
    /\ \E lib \in {TwoBooks} :
          /\ books = lib.books /\ ents = lib.ents /\ deps = lib.deps
          /\ bookSeq = lib.seq /\ files = lib.files /\ born = lib.born
    /\ \E a \in {TwoMembers} :
          /\ shelf = a.shelf
          /\ book_shelf_link = a.book_shelf_link
          /\ assigned = {<<l.shelf, l.order>> : l \in a.book_shelf_link}
    /\ kobo_reading_state = {} /\ kobo_bookmark = {} /\ kobo_statistics = {}
    /\ kobo_synced_books = {} /\ downloads = {} /\ archived_book = {}
    /\ cur = Idle /\ log = <<>> /\ ops = 0

ShelfTargets == {<<"Favorites", None>>, <<"Favorites", Some("alice")>>,
                 <<"Kobo", None>>, <<"Favorites", Some("bob")>>}

NextShelf ==
    \/ \E id \in BookIds, t \in ShelfTargets, with_metadata \in BOOLEAN :
          AddToShelf(id, t[1], t[2], with_metadata, MaxShelfOps)
    \/ \E id \in BookIds : DeleteBook(id, TRUE, MaxShelfOps)

SpecShelf == InitShelf /\ [][NextShelf]_vars

TwoShelfAdds ==
    /\ Len(log) = 2 /\ log[1].op = "add-to-shelf" /\ log[2].op = "add-to-shelf"
    /\ log[1].book_id = log[2].book_id /\ log[1].shelf_name = log[2].shelf_name
    /\ log[1].username = log[2].username

\* C4: adding the same (book, collection) pair twice leaves exactly one
\* membership row for the pair, the second call reports "already present"
\* without error, and the row keeps the position the first insertion gave it;
\* at all times a (book, collection) pair has at most one membership row.
C4_Theorem ==
    /\ (TwoShelfAdds /\ log[1].result # "Error" /\ log[2].result # "Error")
       => /\ log[2].result = "Present"
          /\ log[2].rows = 1
          /\ log[2].shelf_id = log[1].shelf_id
          /\ log[2].positions = log[1].positions
    /\ \A l1, l2 \in book_shelf_link :
          (l1.book_id = l2.book_id /\ l1.shelf = l2.shelf) => l1 = l2

C4_Witness ==
    /\ TwoShelfAdds /\ log[1].result = "Added" /\ log[2].result = "Present"
    /\ \E l \in book_shelf_link : l.book_id = log[2].book_id /\ l.shelf = log[2].shelf_id
                                  /\ l.order = log[1].order

\* C5 (as claimed): a position value once assigned in a collection is never
\* assigned in it again.
C5_Counterexample ==
    \A i \in 1 .. Len(log) : log[i].op = "add-to-shelf" => ~log[i].reused

\* C5 (amended): within a collection the positions of the current members are
\* pairwise distinct and strictly increasing with insertion order; every
\* position handed out is recorded, but a value may be handed out again once
\* the member that held the highest position has been removed.
C5_Theorem ==
    /\ \A l1, l2 \in book_shelf_link :
          (l1.shelf = l2.shelf /\ l1.date_added < l2.date_added) => l1.order < l2.order
    /\ \A l1, l2 \in book_shelf_link :
          (l1.shelf = l2.shelf /\ l1 # l2) => l1.order # l2.order
    /\ \A l \in book_shelf_link : l.order >= 1

\* a position handed out a second time while the collection has other members
C5_Witness ==
    /\ Len(log) >= 1 /\ log[Len(log)].op = "add-to-shelf" /\ log[Len(log)].reused
    /\ \E l1, l2 \in book_shelf_link :
          /\ l1.shelf = log[Len(log)].shelf_id /\ l2.shelf = l1.shelf
          /\ l1.order < l2.order /\ l2.order = log[Len(log)].order

-----------------------------------------------------------------------------
(* Repair pass (appdb.rs): fix_kobo_sync_issues and the schema fix it calls *)

\* a timestamp string that contains '.' and has at least 26 characters
well_formed(ts) == ts > 0

\* "SELECT DISTINCT bsl.book_id, s.id, s.user_id ... WHERE s.kobo_sync = 1"
books_on_kobo_shelves(a) ==
    {<<p[1].book_id, p[2].id, p[2].user_id>> :
        p \in {q \in a.book_shelf_link \X a.shelf : q[1].shelf = q[2].id /\ q[2].kobo_sync}}

first_tuple(S) ==
    CHOOSE t \in S : \A u \in S :
        \/ t[1] < u[1]
        \/ t[1] = u[1] /\ t[2] < u[2]
        \/ t[1] = u[1] /\ t[2] = u[2] /\ t[3] <= u[3]

\* one iteration of the loop over books_to_process (lines 455-511)
process_kobo_book(st, t, now_micro) ==
    LET a == st.db
        removed == {k \in a.kobo_synced_books : k.book_id = t[1] /\ k.user_id = t[3]}
        states == {r \in a.kobo_reading_state : r.book_id = t[1] /\ r.user_id = t[3]}
        state == first_row(states)
        standardize == ~well_formed(state.last_modified)
        a1 == [a EXCEPT !.kobo_synced_books = @ \ removed]
        a2 == IF states # {}
              THEN IF standardize
                   THEN [a1 EXCEPT !.kobo_reading_state =
                            {IF r.id = state.id
                             THEN [r EXCEPT !.last_modified = now_micro,
                                            !.priority_timestamp = now_micro]
                             ELSE r : r \in @}]
                   ELSE a1
              ELSE [a1 EXCEPT !.kobo_reading_state = @ \cup
                        {[id |-> last_insert_rowid(a.kobo_reading_state), user_id |-> t[3],
                          book_id |-> t[1], current_bookmark |-> 0,
                          last_modified |-> now_micro, priority_timestamp |-> now_micro]}]
        a3 == [a2 EXCEPT !.shelf = {IF s.id = t[2] THEN [s EXCEPT !.last_modified = now_micro]
                                    ELSE s : s \in @}]
    IN  IF ~st.ok THEN st
        \* a NULL last_modified cannot be read as a String: the pass fails
        ELSE IF states # {} /\ state.last_modified = 0 THEN [st EXCEPT !.ok = FALSE]
        ELSE [st EXCEPT
                !.db = a3,
                !.cleaned_sync_entries = @ + Cardinality(removed),
                !.fixed_timestamps = @ + (IF states # {} /\ standardize THEN 1 ELSE 0),
                !.fixed_reading_state = @ + (IF states = {} THEN 1 ELSE 0),
                !.writes = @ + Cardinality(removed) + 1
                             + (IF states = {} \/ standardize THEN 1 ELSE 0)]

RECURSIVE process_kobo_books(_, _, _)
process_kobo_books(st, todo, now_micro) ==
    IF todo = {} THEN st
    ELSE LET t == first_tuple(todo)
         IN  process_kobo_books(process_kobo_book(st, t, now_micro), todo \ {t}, now_micro)

\* the kobo_statistics rows inserted for the reading states that have none
RECURSIVE insert_statistics(_, _)
insert_statistics(stats, ids) ==
    IF ids = {} THEN stats
    ELSE LET i == CHOOSE x \in ids : \A y \in ids : x <= y
         IN  insert_statistics(stats \cup {[id |-> last_insert_rowid(stats),
                                            kobo_reading_state_id |-> i]}, ids \ {i})

NoFixes(a) ==
    [db |-> a, ok |-> TRUE, cleaned_sync_entries |-> 0, fixed_reading_state |-> 0,
     fixed_timestamps |-> 0, repaired_statistics |-> 0, reset_timestamps |-> 0,
     removed_duplicates |-> 0, created_bookmarks |-> 0, updated_refs |-> 0, writes |-> 0]

\* the first transaction of fix_kobo_sync_issues (lines 427-609)
fix_kobo_sync_tx(a, now_micro) ==
    LET s1 == process_kobo_books(NoFixes(a), books_on_kobo_shelves(a), now_micro)
        orphaned_states == {r \in s1.db.kobo_reading_state :
                               r.last_modified = 0 /\ r.priority_timestamp # 0}
        orphaned_priorities == {r \in s1.db.kobo_reading_state :
                                   r.priority_timestamp = 0 /\ r.last_modified # 0}
        states == {IF r \in orphaned_states THEN [r EXCEPT !.last_modified = r.priority_timestamp]
                   ELSE IF r \in orphaned_priorities
                   THEN [r EXCEPT !.priority_timestamp = r.last_modified]
                   ELSE r : r \in s1.db.kobo_reading_state}
        missing_stats == {r \in states : ~\E k \in s1.db.kobo_statistics :
                                             k.kobo_reading_state_id = r.id}
        kobo_shelves == {x.id : x \in {y \in s1.db.shelf : y.kobo_sync}}
        updated_books == {l \in s1.db.book_shelf_link : l.shelf \in kobo_shelves}
        fixed == Cardinality(orphaned_states) + Cardinality(orphaned_priorities)
    IN  IF ~s1.ok THEN [NoFixes(a) EXCEPT !.ok = FALSE]     \* the transaction rolls back
        \* row.get::<_, String>("last_modified") fails on NULL
        ELSE IF \E r \in missing_stats : r.last_modified = 0
        THEN [NoFixes(a) EXCEPT !.ok = FALSE]
        ELSE [s1 EXCEPT
                !.db = [s1.db EXCEPT
                          !.kobo_reading_state = states,
                          !.kobo_statistics = insert_statistics(@, {r.id : r \in missing_stats}),
                          !.book_shelf_link = {IF l \in updated_books
                                               THEN [l EXCEPT !.date_added = now_micro]
                                               ELSE l : l \in @}],
                !.fixed_timestamps = @ + fixed,
                !.repaired_statistics = Cardinality(missing_stats),
                !.reset_timestamps = Cardinality(updated_books),
                !.writes = @ + fixed + Cardinality(missing_stats) + Cardinality(updated_books)]

\* variant: the row of the lowest id of each (user_id, book_id) group is kept
duplicate_states_keep_lowest(states) ==
    {r \in states : \E q \in states :
        q.user_id = r.user_id /\ q.book_id = r.book_id /\ q.id < r.id}

\* "SELECT MAX(id) FROM kobo_reading_state GROUP BY user_id, book_id"
duplicate_states(states) ==
    {r \in states : \E q \in states :
        q.user_id = r.user_id /\ q.book_id = r.book_id /\ q.id > r.id}

\* variant: the default bookmarks are inserted, the UPDATE of the pointer is left out
RECURSIVE create_bookmarks_without_pointer(_, _)
create_bookmarks_without_pointer(a, ids) ==
    IF ids = {} THEN a
    ELSE LET i == CHOOSE x \in ids : \A y \in ids : x <= y
         IN  create_bookmarks_without_pointer(
                 [a EXCEPT !.kobo_bookmark = @ \cup
                              {[id |-> last_insert_rowid(a.kobo_bookmark),
                                kobo_reading_state_id |-> i]}],
                 ids \ {i})

\* a default bookmark for each reading state without one, and the pointer at it
RECURSIVE create_missing_bookmarks(_, _)
create_missing_bookmarks(a, ids) ==
    IF ids = {} THEN a
    ELSE LET i == CHOOSE x \in ids : \A y \in ids : x <= y
             bookmark_id == last_insert_rowid(a.kobo_bookmark)
         IN  create_missing_bookmarks(
                 [a EXCEPT !.kobo_bookmark = @ \cup {[id |-> bookmark_id,
                                                      kobo_reading_state_id |-> i]},
                           !.kobo_reading_state =
                               {IF r.id = i THEN [r EXCEPT !.current_bookmark = bookmark_id]
                                ELSE r : r \in @}],
                 ids \ {i})

fix_kobo_reading_state_schema(st) ==
    LET a == st.db
        dups == duplicate_states(a.kobo_reading_state)
        dup_bookmarks == {b \in a.kobo_bookmark :
                             \E r \in dups : b.kobo_reading_state_id = r.id}
        a1 == [a EXCEPT !.kobo_bookmark = @ \ dup_bookmarks,
                        !.kobo_reading_state = @ \ dups]
        missing_bookmarks == {r.id : r \in {q \in a1.kobo_reading_state :
                                 ~\E b \in a1.kobo_bookmark : b.kobo_reading_state_id = q.id}}
        a2 == create_missing_bookmarks(a1, missing_bookmarks)
        own(r) == {b \in a2.kobo_bookmark : b.kobo_reading_state_id = r.id}
        unset == {r \in a2.kobo_reading_state : r.current_bookmark = 0 /\ own(r) # {}}
        a3 == [a2 EXCEPT !.kobo_reading_state =
                   {IF r \in unset THEN [r EXCEPT !.current_bookmark = first_row(own(r)).id]
                    ELSE r : r \in @}]
    IN  [st EXCEPT !.db = a3,
                   !.removed_duplicates = Cardinality(dups),
                   !.created_bookmarks = Cardinality(missing_bookmarks),
                   !.updated_refs = Cardinality(unset),
                   !.writes = @ + Cardinality(dup_bookmarks) + Cardinality(dups)
                                + 2 * Cardinality(missing_bookmarks) + Cardinality(unset)]

fix_kobo_sync_issues(a, now_micro) ==
    LET schema(st) == IF st.ok THEN fix_kobo_reading_state_schema(st) ELSE st
    IN  schema(fix_kobo_sync_tx(a, now_micro))

-----------------------------------------------------------------------------
(* The fix-kobo-sync command on a damaged companion store (SpecRepair) *)

MaxFixRuns == 2

FixKoboSync(with_metadata, bound) ==
    /\ cur = Idle /\ ops < bound
    /\ ops' = ops + 1
    /\ \E a0 \in {IF with_metadata THEN RepairedAppDb ELSE TheAppDb} :
       \E r \in {fix_kobo_sync_issues(a0, now_local_micro)} :
           /\ SetAppDb(r.db)
           /\ books' = IF with_metadata THEN RepairedBooks ELSE books
           /\ log' = Push([op |-> "fix", with_metadata |-> with_metadata, ok |-> r.ok,
                           cleaned_sync_entries |-> r.cleaned_sync_entries,
                           fixed_reading_state |-> r.fixed_reading_state,
                           fixed_timestamps |-> r.fixed_timestamps,
                           repaired_statistics |-> r.repaired_statistics,
                           reset_timestamps |-> r.reset_timestamps,
                           removed_duplicates |-> r.removed_duplicates,
                           created_bookmarks |-> r.created_bookmarks,
                           updated_refs |-> r.updated_refs,
                           writes |-> r.writes,
                           before |-> a0])
    /\ UNCHANGED <<ents, deps, bookSeq, files, downloads, archived_book, cur, assigned, born>>

Link(book_id, shelf_id, order) ==
    [book_id |-> book_id, shelf |-> shelf_id, order |-> order, date_added |-> 1]

ReadingState(id, book_id, current_bookmark, ts) ==
    [id |-> id, user_id |-> 1, book_id |-> book_id, current_bookmark |-> current_bookmark,
     last_modified |-> ts[1], priority_timestamp |-> ts[2]]

Child(id, reading_state_id) == [id |-> id, kobo_reading_state_id |-> reading_state_id]

FavoritesShelf ==
    [id |-> 2, name |-> "Favorites", user_id |-> 1, kobo_sync |-> FALSE,
     created |-> 1, last_modified |-> 1]

\* <<last_modified, priority_timestamp>>: set, NULL, or without the fraction
Stamps == {<<1, 1>>, <<0, 1>>, <<1, 0>>, <<0, 0>>, <<-1, 1>>}

LinkChoices ==
    { {}, {Link(1, 1, 1)}, {Link(1, 1, 1), Link(2, 1, 2)}, {Link(1, 1, 1), Link(2, 2, 1)} }

State1Choices ==
    {{}} \cup {{ReadingState(1, 1, cb, ts)} : cb \in 0 .. 2, ts \in Stamps}

State2Choices ==
    {{}} \cup {{ReadingState(2, bk, cb, ts)} :
                  bk \in 1 .. 2, cb \in {0, 2}, ts \in {<<1, 1>>, <<-1, 1>>, <<0, 0>>}}

BookmarkChoices ==
    {b1 \cup b2 : b1 \in {{}, {Child(1, 1)}, {Child(1, 2)}}, b2 \in {{}, {Child(2, 2)}}}

StatisticsChoices == { {}, {Child(1, 1), Child(2, 2)} }

SyncedChoices == { {}, {[user_id |-> 1, book_id |-> 1]} }

InitRepair ==
    /\ books = {} /\ ents = {} /\ deps = {} /\ bookSeq = 0 /\ files = {} /\ born = {}
    /\ shelf = {KoboShelf, FavoritesShelf}
    /\ book_shelf_link \in LinkChoices
    /\ \E s1 \in State1Choices, s2 \in State2Choices : kobo_reading_state = s1 \cup s2
    /\ kobo_bookmark \in BookmarkChoices
    /\ kobo_statistics \in StatisticsChoices
    /\ kobo_synced_books \in SyncedChoices
    /\ downloads = {} /\ archived_book = {}
    /\ cur = Idle /\ log = <<>> /\ assigned = {} /\ ops = 0

NextRepair == \E with_metadata \in BOOLEAN : FixKoboSync(with_metadata, MaxFixRuns)

SpecRepair == InitRepair /\ [][NextRepair]_vars

LastFix == Len(log) >= 1 /\ log[Len(log)].op = "fix" /\ log[Len(log)].ok

\* C6 (as claimed): after a repair pass that completed, whatever the state it
\* started from, every reading state with a non-null current_bookmark names a
\* bookmark that exists and whose kobo_reading_state_id is that reading state.
C6_Counterexample ==
    LastFix => \A r \in kobo_reading_state :
                  r.current_bookmark # 0 =>
                      \E b \in kobo_bookmark : /\ b.id = r.current_bookmark
                                               /\ b.kobo_reading_state_id = r.id

TwoFixes ==
    /\ Len(log) = 2 /\ log[1].op = "fix" /\ log[2].op = "fix"
    /\ log[1].ok /\ log[2].ok

\* C10 (as claimed): of two successive repair passes the second one deletes,
\* inserts and updates no row and reports no fix category with a non-zero count.
C10_Counterexample ==
    TwoFixes => /\ log[2].writes = 0
                /\ log[2].cleaned_sync_entries = 0 /\ log[2].fixed_reading_state = 0
                /\ log[2].fixed_timestamps = 0 /\ log[2].repaired_statistics = 0
                /\ log[2].reset_timestamps = 0 /\ log[2].removed_duplicates = 0
                /\ log[2].created_bookmarks = 0 /\ log[2].updated_refs = 0

-----------------------------------------------------------------------------
(* Orphan pass (cleanup.rs): cleanup_databases *)

\* variant: the parent of any file at all counts as a book directory
book_paths_of_any_file(fl) == {f.dir : f \in fl}

\* the parents of the files that have an extension other than jpg and opf
book_paths(fl) == {f.dir : f \in {g \in fl : g.ext # "" /\ g.ext \notin {".jpg", ".opf"}}}

orphaned_books(bks, fl) == {b.id : b \in {x \in bks : x.path \notin book_paths(fl)}}

\* the tables cleanup_databases names in its DELETE loop
CleanupTables ==
    {"books_authors_link", "books_languages_link", "books_publishers_link",
     "books_ratings_link", "books_series_link", "books_tags_link", "comments",
     "data", "identifiers", "metadata_dirtied", "annotations_dirtied"}

\* the link table whose rows keep an entity of the table alive
LinkTableOf(tbl) ==
    CASE tbl = "authors" -> "books_authors_link"
      [] tbl = "publishers" -> "books_publishers_link"
      [] tbl = "series" -> "books_series_link"
      [] tbl = "tags" -> "books_tags_link"
      [] OTHER -> ""

\* the catalog transaction (lines 34-122)
cleanup_catalog(bks, entRows, dps, fl) ==
    LET orphaned == orphaned_books(bks, fl)
        dps1 == {d \in dps : ~(d.book \in orphaned /\ d.tbl \in CleanupTables)}
        \* "DELETE FROM books WHERE id = ?1" also fires the delete trigger
        dps2 == {d \in dps1 : d.book \notin orphaned}
        unused == {e \in entRows : /\ LinkTableOf(e.tbl) # ""
                                   /\ ~\E d \in dps2 : d.tbl = LinkTableOf(e.tbl) /\ d.ref = e.id}
    IN  [books |-> {b \in bks : b.id \notin orphaned}, ents |-> entRows \ unused,
         deps |-> dps2, orphaned |-> orphaned]

\* variant: the NOT IN condition selects no row
matches_no_row(book_id, valid_books) == FALSE

\* "... WHERE book_id NOT IN ({valid_book_ids})", the id list spliced into the SQL
not_in_list(book_id, valid_books) == book_id \notin valid_books

\* "... WHERE book_id NOT IN (?)" with the joined list bound as one text value:
\* the text converts to an integer only when it holds a single id ("-1" when
\* there is no book), any longer list compares unequal to every book_id
not_in_bound_text(book_id, valid_books) ==
    IF Cardinality(valid_books) = 1 THEN book_id \notin valid_books ELSE TRUE

\* variant: no child row is deleted
keep_children(children, states, valid_books) == children

\* "DELETE FROM kobo_bookmark WHERE kobo_reading_state_id IN (SELECT id FROM
\* kobo_reading_state WHERE book_id NOT IN (?))"; the same for kobo_statistics
delete_children(children, states, valid_books) ==
    {c \in children : ~\E r \in states : /\ r.id = c.kobo_reading_state_id
                                          /\ not_in_bound_text(r.book_id, valid_books)}

\* variant: a DELETE removes one matching row and stops
delete_one_orphaned_row(rows, valid_books) ==
    LET gone == {r \in rows : not_in_list(r.book_id, valid_books)}
    IN  IF gone = {} THEN rows ELSE rows \ {CHOOSE r \in gone : TRUE}

delete_orphaned_rows(rows, valid_books) ==
    {r \in rows : ~not_in_list(r.book_id, valid_books)}

\* the companion-store transaction (lines 128-274)
cleanup_appdb(a, dl, ar, valid_books, now_micro) ==
    LET shelves == {IF s.created = 0 /\ s.last_modified = 0
                    THEN [s EXCEPT !.created = now_micro, !.last_modified = now_micro]
                    ELSE IF s.created = 0 THEN [s EXCEPT !.created = s.last_modified]
                    ELSE IF s.last_modified = 0 THEN [s EXCEPT !.last_modified = s.created]
                    ELSE s : s \in a.shelf}
        links0 == {[l EXCEPT !.date_added = fill(@, now_micro)] : l \in a.book_shelf_link}
        bookmarks == delete_children(a.kobo_bookmark, a.kobo_reading_state, valid_books)
        statistics == delete_children(a.kobo_statistics, a.kobo_reading_state, valid_books)
        links == delete_orphaned_rows(links0, valid_books)
        empty == {s.id : s \in {x \in shelves : ~\E l \in links : l.shelf = x.id}}
    IN  [db |-> [a EXCEPT
                   !.shelf = {s \in shelves : s.id \notin empty},
                   !.book_shelf_link = links,
                   !.kobo_bookmark = bookmarks,
                   !.kobo_statistics = statistics,
                   !.kobo_reading_state = delete_orphaned_rows(@, valid_books),
                   !.kobo_synced_books = delete_orphaned_rows(@, valid_books)],
         downloads |-> delete_orphaned_rows(dl, valid_books),
         archived_book |-> delete_orphaned_rows(ar, valid_books),
         removed_shelves |-> empty]

-----------------------------------------------------------------------------
(* The clean-db command on a damaged library (SpecCleanup) *)

MaxCleanRuns == 2

\* what the claim calls a content file: any file but a cover or metadata sidecar
is_content_file(f) == f.ext \notin {".jpg", ".opf"}

has_content(fl, path) == \E f \in fl : f.dir = path /\ is_content_file(f)

BookIdsOf(bks) == {b.id : b \in bks}

CleanDb(with_appdb, bound) ==
    /\ cur = Idle /\ ops < bound
    /\ ops' = ops + 1
    /\ \E bks \in {RepairedBooks}, a0 \in {IF with_appdb THEN RepairedAppDb ELSE TheAppDb} :
       \E c \in {cleanup_catalog(bks, ents, deps, files)} :
       \E a \in {cleanup_appdb(a0, downloads, archived_book, BookIdsOf(c.books),
                               now_local_micro)} :
           /\ books' = c.books /\ ents' = c.ents /\ deps' = c.deps
           /\ IF with_appdb
              THEN /\ SetAppDb(a.db)
                   /\ downloads' = a.downloads /\ archived_book' = a.archived_book
                   /\ assigned' = {p \in assigned : p[1] \notin a.removed_shelves}
              ELSE UNCHANGED <<appdbVars, assigned>>
           /\ log' = Push([op |-> "clean-db", with_appdb |-> with_appdb, ok |-> TRUE,
                           books_before |-> {<<b.id, b.path>> : b \in books},
                           states_before |-> {<<r.id, r.book_id>> : r \in kobo_reading_state},
                           bookmarks_before |-> a0.kobo_bookmark,
                           statistics_before |-> a0.kobo_statistics,
                           orphaned |-> c.orphaned,
                           catalog_changed |-> <<c.books, c.ents, c.deps>> # <<bks, ents, deps>>,
                           appdb_changed |-> with_appdb /\ <<a.db, a.downloads, a.archived_book>>
                                                           # <<a0, downloads, archived_book>>])
    /\ UNCHANGED <<bookSeq, files, cur, born>>

File(dir, name, ext) == [dir |-> dir, name |-> name, ext |-> ext, hash |-> "h0"]

\* a book row whose directory was never created
LostBook ==
    [id |-> 3, title |-> "Lost", author_sort |-> "Doe, John", path |-> "John Doe/Lost (3)",
     pubdate |-> Some(1), series_index |-> 1, last_modified |-> 1, has_cover |-> FALSE]

Dir1 == "John Doe/Dune (1)"
Dir2 == "Ann Jr. Lee/Emma (2)"

\* what may be left of the first book's directory
Dir1Choices(fl) ==
    { {f \in fl : f.dir = Dir1},
      {f \in fl : f.dir = Dir1 /\ f.ext = ".jpg"},
      {File(Dir1, "metadata", ".opf"), File(Dir1, "README", "")},
      {} }

\* what may be left of the second book's directory
Dir2Choices(fl) ==
    { {f \in fl : f.dir = Dir2},
      {File(Dir2 \o "/old", "Emma - Ann Jr. Lee", ".kepub")} }

\* rows of dependent tables whose book is not in the catalog
DanglingChoices ==
    { {}, {Dep("books_authors_link", 7, 1, ""), Dep("comments", 7, 0, "gone")} }

BookRef(book_id) == [user_id |-> 1, book_id |-> book_id]

CleanLinkChoices ==
    { {}, {Link(1, 1, 1)}, {Link(1, 1, 1), Link(7, 2, 1)}, {Link(1, 1, 1), Link(2, 2, 1)} }

CleanStateChoices ==
    { {}, {ReadingState(1, 7, 1, <<1, 1>>)},
      {ReadingState(1, 1, 1, <<1, 1>>), ReadingState(2, 7, 2, <<1, 1>>)},
      {ReadingState(1, 1, 1, <<1, 1>>), ReadingState(2, 2, 2, <<1, 1>>)} }

CleanChildChoices == { {}, {Child(1, 1), Child(2, 2)} }

InitCleanup ==
    /\ \E lib \in {TwoBooks} :
          /\ \E lost \in SUBSET {LostBook} : books = lib.books \cup lost
          /\ ents = lib.ents
          /\ \E d \in DanglingChoices : deps = lib.deps \cup d
          /\ bookSeq = 3 /\ born = lib.born
          /\ \E f1 \in Dir1Choices(lib.files), f2 \in Dir2Choices(lib.files) :
                files = f1 \cup f2
    /\ shelf = {KoboShelf, FavoritesShelf}
    /\ book_shelf_link \in CleanLinkChoices
    /\ kobo_reading_state \in CleanStateChoices
    /\ kobo_bookmark \in CleanChildChoices
    /\ kobo_statistics \in CleanChildChoices
    /\ kobo_synced_books \in {{}, {BookRef(1), BookRef(7)}}
    /\ downloads \in {{}, {BookRef(2), BookRef(7)}}
    /\ archived_book \in {{}, {BookRef(7)}}
    /\ cur = Idle /\ log = <<>> /\ assigned = {} /\ ops = 0

NextCleanup == \E with_appdb \in BOOLEAN : CleanDb(with_appdb, MaxCleanRuns)

SpecCleanup == InitCleanup /\ [][NextCleanup]_vars

LastClean == Len(log) >= 1 /\ log[Len(log)].op = "clean-db"

\* C7 (as claimed): after the orphan pass, whatever the state it started from,
\* no row of a dependent table of the catalog names a book id that is not in
\* books.
C7_Counterexample ==
    LastClean => \A d \in deps : d.book \in BookIdsOf(books)

\* C8: after the orphan pass every remaining book has a path whose directory
\* holds at least one content file, and every book whose directory was missing
\* or held no content file is gone.
C8_Theorem ==
    LastClean =>
        /\ \A b \in books : has_content(files, b.path)
        /\ \A t \in log[Len(log)].books_before :
              ~has_content(files, t[2]) => t[1] \notin BookIdsOf(books)

\* a book survived with its content, another one was removed for having none
C8_Witness ==
    /\ LastClean
    /\ \E b \in books : has_content(files, b.path)
    /\ \E t \in log[Len(log)].books_before :
          ~has_content(files, t[2]) /\ t[1] \notin BookIdsOf(books)

\* C9: after the orphan pass ran with the companion store, no membership link,
\* reading state, sync acknowledgment, download or archived row names a book id
\* outside the catalog, no bookmark or statistics row belongs to a reading state
\* whose book was outside the catalog, and no shelf is left without a member.
C9_Theorem ==
    (LastClean /\ log[Len(log)].with_appdb) =>
        LET valid_books == BookIdsOf(books)
            stale == {t[1] : t \in {u \in log[Len(log)].states_before :
                                       u[2] \notin valid_books}}
        IN  /\ \A l \in book_shelf_link : l.book_id \in valid_books
            /\ \A r \in kobo_reading_state : r.book_id \in valid_books
            /\ \A k \in kobo_synced_books : k.book_id \in valid_books
            /\ \A k \in downloads : k.book_id \in valid_books
            /\ \A k \in archived_book : k.book_id \in valid_books
            /\ \A c \in kobo_bookmark \cup kobo_statistics :
                  c.kobo_reading_state_id \notin stale
            /\ \A s \in shelf : \E l \in book_shelf_link : l.shelf = s.id

\* the pass removed a reading state of a missing book and emptied a shelf
C9_Witness ==
    /\ LastClean /\ log[Len(log)].with_appdb
    /\ \E t \in log[Len(log)].states_before : t[2] \notin BookIdsOf(books)
    /\ Cardinality(shelf) = 1 /\ kobo_reading_state # {} /\ kobo_bookmark # {}


TwoCleans ==
    /\ Len(log) = 2 /\ log[1].op = "clean-db" /\ log[2].op = "clean-db"
    /\ (log[1].with_appdb \/ ~log[2].with_appdb)

\* C11: of two successive orphan passes with nothing changed in between, the
\* second one deletes and updates no row of the catalog or of the companion store.
C11_Theorem ==
    TwoCleans => ~log[2].catalog_changed /\ ~log[2].appdb_changed

\* the first pass removed a book and companion rows, the second pass followed
C11_Witness ==
    /\ TwoCleans /\ log[1].with_appdb /\ log[2].with_appdb
    /\ log[1].orphaned # {} /\ log[1].catalog_changed /\ log[1].appdb_changed
    /\ books # {} /\ kobo_reading_state # {}

-----------------------------------------------------------------------------
(* The delete command on a library with companion rows (SpecDelete) *)

MaxDeleteRuns == 2

DeleteLinkChoices ==
    { {}, {Link(1, 1, 1), Link(2, 1, 2)}, {Link(1, 1, 1), Link(1, 2, 1), Link(2, 2, 2)},
      {Link(1, 1, 1), Link(7, 2, 1)} }

InitDelete ==
    /\ \E lib \in {TwoBooks} :
          /\ \E lost \in SUBSET {LostBook} : books = lib.books \cup lost
          /\ ents = lib.ents /\ deps = lib.deps /\ files = lib.files /\ born = lib.born
    /\ bookSeq = 3
    /\ shelf = {KoboShelf, FavoritesShelf}
    /\ book_shelf_link \in DeleteLinkChoices
    /\ kobo_reading_state \in CleanStateChoices
    /\ kobo_bookmark \in CleanChildChoices
    /\ kobo_statistics \in CleanChildChoices
    /\ kobo_synced_books \in {{}, {BookRef(1), BookRef(7)}}
    /\ downloads = {} /\ archived_book = {}
    /\ cur = Idle /\ log = <<>> /\ assigned = {} /\ ops = 0

\* ids of a book with files, of a book row without a directory, and of no row
DeleteIds == {1, 2, 3, 7}

NextDelete ==
    \E id \in DeleteIds, with_appdb \in BOOLEAN : DeleteBook(id, with_appdb, MaxDeleteRuns)

SpecDelete == InitDelete /\ [][NextDelete]_vars

LastDelete == Len(log) >= 1 /\ log[Len(log)].op = "delete" /\ log[Len(log)].with_appdb

\* C12: after a delete of book b that completed with the companion store, no
\* membership link names b, and every collection that held b and is left
\* without members has been deleted.
C12_Theorem ==
    (LastDelete /\ log[Len(log)].ok) =>
        /\ \A l \in book_shelf_link : l.book_id # log[Len(log)].book_id
        /\ \A id \in log[Len(log)].shelves :
              (~\E l \in book_shelf_link : l.shelf = id) => ~\E s \in shelf : s.id = id

\* the book was on two collections: one was emptied and is gone, one remains
C12_Witness ==
    /\ LastDelete /\ log[Len(log)].ok
    /\ \E id1, id2 \in log[Len(log)].shelves :
          /\ ~\E s \in shelf : s.id = id1
          /\ \E s \in shelf : s.id = id2
          /\ \E l \in book_shelf_link : l.shelf = id2

\* C13 (as claimed): after a delete of book b that completed with the
\* companion store, no reading state, bookmark or statistics row of such a
\* reading state, or sync acknowledgment for b remains.
C13_Counterexample ==
    (LastDelete /\ log[Len(log)].ok) =>
        /\ \A r \in kobo_reading_state : r.book_id # log[Len(log)].book_id
        /\ \A k \in kobo_synced_books : k.book_id # log[Len(log)].book_id

\* C14: a delete of an id that has no catalog row succeeds, removes every
\* membership link of that id and the collections this empties, and touches no
\* file.
C14_Theorem ==
    (LastDelete /\ ~log[Len(log)].found) =>
        /\ log[Len(log)].ok
        /\ ~log[Len(log)].fs_touched
        /\ \A l \in book_shelf_link : l.book_id # log[Len(log)].book_id
        /\ \A id \in log[Len(log)].shelves :
              (~\E l \in book_shelf_link : l.shelf = id) => ~\E s \in shelf : s.id = id

\* an id without a row had a link, and the collection it emptied is gone
C14_Witness ==
    /\ LastDelete /\ ~log[Len(log)].found /\ log[Len(log)].ok
    /\ \E id \in log[Len(log)].shelves : ~\E s \in shelf : s.id = id
    /\ files # {}

-----------------------------------------------------------------------------
(* Unsupported file extensions (Spec) *)

\* C15 (as claimed): an import of a file whose name ends in none of .epub,
\* .kepub and .kepub.epub is an error for that book and leaves no catalog write
\* behind, whether or not a book with the same title and author sort exists.
C15_Counterexample ==
    \A i \in 1 .. Len(log) :
        (log[i].op = "add" /\ log[i].input.ext \notin {".epub", ".kepub", ".kepub.epub"})
            => ~log[i].ok /\ log[i].writes = 0

-----------------------------------------------------------------------------
(* The add command as one call (main.rs, add_book_flow), with its dry-run    *)
(* flag, and the directory import built on it (SpecBatch)                    *)

TheStores ==
    [books |-> books, ents |-> ents, deps |-> deps, seq |-> bookSeq, files |-> files,
     db |-> TheAppDb, born |-> born, assigned |-> assigned]

SetStores(s) ==
    /\ books' = s.books /\ ents' = s.ents /\ deps' = s.deps /\ bookSeq' = s.seq
    /\ files' = s.files /\ born' = s.born /\ assigned' = s.assigned
    /\ SetAppDb(s.db)

\* add_book_flow: the stores when the call returns, Ok or Err, the upsert
\* result and whether the incoming file was copied into the library
add_book_flow(st, epub_file, shelf_name, username, dry_run, now, now_micro) ==
    LET out(s, r, ok, copied) ==
            [st |-> s, ok |-> ok, result |-> r.result, book_id |-> r.book_id,
             book_path |-> r.book_path, copied |-> copied]
        \* epub::update_book_files and "UPDATE books SET has_cover = 1"
        moved(s, r, f) ==
            out([s EXCEPT !.files = f.files,
                          !.books = IF f.ok /\ f.cover_saved
                                    THEN {IF b.id = r.book_id THEN [b EXCEPT !.has_cover = TRUE]
                                          ELSE b : b \in s.books}
                                    ELSE s.books],
                r, f.ok, f.copied)
        place(s, r) ==
            IF ~skip_file_operations(r.result) /\ ~dry_run
            THEN moved(s, r, update_book_files(s.files, epub_file, r.book_path,
                                               is_update(r.result)))
            ELSE out(s, r, TRUE, FALSE)
        \* appdb::add_book_to_shelf_in_appdb
        linked(s, r, a) ==
            IF a.result = "Error"
            THEN out(s, r, FALSE, FALSE)
            ELSE place([s EXCEPT !.db = a.db,
                                 !.assigned = IF a.result = "Added"
                                              THEN @ \cup {<<a.shelf_id, a.order>>} ELSE @],
                       r)
        shelve(s, r) ==
            IF is_some(shelf_name) /\ ~dry_run
            THEN linked(s, r, add_book_to_shelf_core(s.db, r.book_id, unwrap(shelf_name),
                                                     username, now_micro))
            ELSE place(s, r)
        \* calibre::add_book_to_db
        upserted(r) ==
            IF r.result = "Error"
            THEN out(st, r, FALSE, FALSE)
            ELSE shelve([st EXCEPT !.books = r.books, !.ents = r.ents, !.deps = r.deps,
                                   !.seq = r.seq,
                                   !.born = IF r.result = "Created"
                                            THEN @ \cup {<<r.book_id, epub_file.title,
                                                           get_author_sort(epub_file.author),
                                                           r.book_path>>}
                                            ELSE @],
                        r)
    IN  upserted(add_book_to_db(st.books, st.ents, st.deps, st.seq, st.files, epub_file, now))

\* main, lines 48-51, on the stores st
startup_repair(st, now, now_micro) ==
    [st EXCEPT !.books = verify_and_repair_books(@, format_timestamp_micro(now)),
               !.db = verify_and_repair_timestamps(@, now_micro)]

\* Commands::Add with --epub-file
AddBook(m, sh, un, dry_run, bound) ==
    /\ cur = Idle /\ ops < bound
    /\ ops' = ops + 1
    /\ \E s0 \in {startup_repair(TheStores, now_utc, now_local_micro)} :
       \E r \in {add_book_flow(s0, m, sh, un, dry_run, now_utc, now_local_micro)} :
          /\ SetStores(r.st)
          /\ log' = Push([op |-> "add", input |-> m, shelf_name |-> sh, username |-> un,
                          dry_run |-> dry_run, result |-> r.result, book_id |-> r.book_id,
                          book_path |-> r.book_path, ok |-> r.ok, copied |-> r.copied,
                          had_file |-> get_existing_book_file_path(files, r.book_path) # {},
                          catalog_changed |-> <<books, ents, deps, bookSeq>>
                                              # <<r.st.books, r.st.ents, r.st.deps, r.st.seq>>,
                          appdb_changed |-> TheAppDb # r.st.db,
                          fs_changed |-> files # r.st.files])
    /\ UNCHANGED <<downloads, archived_book, cur>>

\* a directory entry: its place in the order of the paths and the file behind it
DirEntry(rank, file) == [rank |-> rank, file |-> file]

\* a.epub, b.EPUB, c.kepub, d.pdf, e.kepub.epub
DirEntries ==
    { DirEntry(1, InputByHash("h1")),
      DirEntry(2, EpubFile("Emma", "John Doe", "h8", ".EPUB", None, None, None, None, None,
                           FALSE, None, None)),
      DirEntry(3, InputByHash("h5")),
      DirEntry(4, InputByHash("h6")),
      DirEntry(5, InputByHash("h3")) }

\* path.extension(), lower-cased
extension(ext) ==
    CASE ext \in {".epub", ".EPUB", ".kepub.epub"} -> "epub"
      [] ext = ".kepub" -> "kepub"
      [] OTHER -> "pdf"

\* the scan of add_directory_flow: the entries it pushes to epub_files
scan(dir) == {e \in dir : extension(e.file.ext) \in {"epub", "kepub"}}

RECURSIVE sort(_)
\* epub_files.sort()
sort(S) ==
    IF S = {} THEN <<>>
    ELSE LET least == CHOOSE e \in S : \A o \in S : e.rank <= o.rank
         IN  <<least>> \o sort(S \ {least})

\* variant: the loop ends at the first item that fails
after_item_stop_on_failure(b, ok) ==
    [b EXCEPT !.index = IF ok THEN @ + 1 ELSE Len(b.epub_files) + 1,
              !.successful = @ + (IF ok THEN 1 ELSE 0),
              !.failed = @ + (IF ok THEN 0 ELSE 1),
              !.processed = Append(@, b.epub_files[b.index].rank),
              !.outcomes = Append(@, ok)]

\* the match on add_book_flow's result inside the loop
after_item(b, ok) ==
    [b EXCEPT !.index = @ + 1,
              !.successful = @ + (IF ok THEN 1 ELSE 0),
              !.failed = @ + (IF ok THEN 0 ELSE 1),
              !.processed = Append(@, b.epub_files[b.index].rank),
              !.outcomes = Append(@, ok)]

DirEntryOf(b) ==
    [op |-> "add-dir", dir |-> b.dir, found |-> Len(b.epub_files), processed |-> b.processed,
     outcomes |-> b.outcomes, successful |-> b.successful, failed |-> b.failed,
     dry_run |-> b.dry_run, ok |-> TRUE]

\* Commands::Add with --epub-dir: the scan and the sort
AddDirectory(dir, sh, un, dry_run, bound) ==
    /\ cur = Idle /\ ops < bound
    /\ ops' = ops + 1
    /\ \E s0 \in {startup_repair(TheStores, now_utc, now_local_micro)} : SetStores(s0)
    /\ \E b \in {[phase |-> "batch", dir |-> {e.rank : e \in dir},
                  epub_files |-> sort(scan(dir)), index |-> 1, successful |-> 0,
                  failed |-> 0, processed |-> <<>>, outcomes |-> <<>>,
                  shelf_name |-> sh, username |-> un, dry_run |-> dry_run]} :
          IF b.epub_files = <<>>
          THEN cur' = Idle /\ log' = Push(DirEntryOf(b))
          ELSE cur' = b /\ UNCHANGED log
    /\ UNCHANGED <<downloads, archived_book>>

\* one turn of the loop
AddDirectoryItem ==
    /\ cur.phase = "batch" /\ cur.index <= Len(cur.epub_files)
    /\ \E r \in {add_book_flow(TheStores, cur.epub_files[cur.index].file, cur.shelf_name,
                                cur.username, cur.dry_run, Now(ops + 2), ops + 2)} :
          /\ SetStores(r.st)
          /\ cur' = after_item(cur, r.ok)
    /\ UNCHANGED <<downloads, archived_book, log, ops>>

\* the summary and Ok(())
AddDirectoryDone ==
    /\ cur.phase = "batch" /\ cur.index > Len(cur.epub_files)
    /\ cur' = Idle
    /\ log' = Push(DirEntryOf(cur))
    /\ UNCHANGED <<catalogVars, appdbVars, files, assigned, born, ops>>

MaxBatchOps == 2

Directories ==
    { {}, {e \in DirEntries : e.rank = 4}, {e \in DirEntries : e.rank \in {2, 3}},
      {e \in DirEntries : e.rank \in {1, 5}}, DirEntries }

\* --shelf, --username, --dry-run
AddArgs ==
    { <<None, None, FALSE>>, <<Some("Kobo"), None, FALSE>>, <<Some("Kobo"), Some("bob"), FALSE>>,
      <<None, None, TRUE>>, <<Some("Kobo"), None, TRUE>> }

NextBatch ==
    \/ \E m \in InputFiles, t \in AddArgs : AddBook(m, t[1], t[2], t[3], MaxBatchOps)
    \/ \E dir \in Directories, t \in AddArgs : AddDirectory(dir, t[1], t[2], t[3], MaxBatchOps)
    \/ AddDirectoryItem
    \/ AddDirectoryDone

SpecBatch == Init /\ [][NextBatch]_vars

\* the book files of a directory given by the ranks of its entries
BookFilesIn(ranks) == {e.rank : e \in scan({d \in DirEntries : d.rank \in ranks})}

\* C16: a directory import handles every book file found exactly once and in
\* the order of the sorted paths, whatever the outcome of the items before it,
\* returns success, and counts successful + failed = the number of files found
C16_Theorem ==
    /\ \A i \in 1..Len(log) :
          log[i].op = "add-dir" =>
             /\ log[i].ok
             /\ Len(log[i].processed) = Cardinality(BookFilesIn(log[i].dir))
             /\ {log[i].processed[k] : k \in 1..Len(log[i].processed)} = BookFilesIn(log[i].dir)
             /\ \A j, k \in 1..Len(log[i].processed) :
                   j < k => log[i].processed[j] < log[i].processed[k]
             /\ log[i].successful + log[i].failed = log[i].found
             /\ log[i].found = Cardinality(BookFilesIn(log[i].dir))
             /\ log[i].successful = Cardinality({k \in 1..Len(log[i].outcomes) : log[i].outcomes[k]})
    /\ cur.phase = "batch" => cur.successful + cur.failed = cur.index - 1

\* a finished import of a directory whose second book file failed and whose
\* third succeeded
C16_Witness ==
    /\ Len(log) > 0
    /\ log[Len(log)].op = "add-dir"
    /\ log[Len(log)].processed = <<1, 2, 3, 5>>
    /\ log[Len(log)].outcomes = <<TRUE, FALSE, TRUE, TRUE>>
    /\ log[Len(log)].successful = 3 /\ log[Len(log)].failed = 1

-----------------------------------------------------------------------------
(* The entity resolver called on its own (SpecResolver) *)

MaxResolverCalls == 3

\* one call of a resolver entry point, r its result
Resolved(tbl, name, r) ==
    /\ ents' = r.ents
    /\ log' = Push([op |-> "resolve", tbl |-> tbl, name |-> name, before |-> ents,
                    after |-> r.ents, id |-> r.id])
    /\ ops' = ops + 1
    /\ UNCHANGED <<books, deps, bookSeq, files, appdbVars, cur, assigned, born>>

ResolveByName(tbl, name) ==
    /\ ops < MaxResolverCalls
    /\ \E r \in {find_or_create_by_name(ents, tbl, name)} : Resolved(tbl, name, r)

ResolveByNameAndSort(tbl, name, sort_name) ==
    /\ ops < MaxResolverCalls
    /\ \E r \in {find_or_create_by_name_and_sort(ents, tbl, name, sort_name)} : Resolved(tbl, name, r)

ResolveLanguage(lang_code) ==
    /\ ops < MaxResolverCalls
    /\ \E r \in {find_or_create_language(ents, lang_code)} : Resolved("languages", lang_code, r)

EntityNames == {"John Doe", "Saga", "Ace"}
EntitySorts == {"Doe, John", "Saga"}

\* the entity tables are empty, or hold the rows the import of two books made
InitResolver ==
    /\ \E lib \in {TwoBooks} : ents \in {{}, lib.ents}
    /\ books = {} /\ deps = {} /\ bookSeq = 0 /\ files = {}
    /\ shelf = {KoboShelf} /\ book_shelf_link = {}
    /\ kobo_reading_state = {} /\ kobo_bookmark = {} /\ kobo_statistics = {}
    /\ kobo_synced_books = {} /\ downloads = {} /\ archived_book = {}
    /\ cur = Idle /\ log = <<>> /\ assigned = {} /\ born = {} /\ ops = 0

NextResolver ==
    \/ \E name \in EntityNames : ResolveByName("publishers", name)
    \/ \E tbl \in {"authors", "series"}, name \in EntityNames, sort_name \in EntitySorts :
          ResolveByNameAndSort(tbl, name, sort_name)
    \/ \E lang_code \in {"eng", "fra"} : ResolveLanguage(lang_code)

SpecResolver == InitResolver /\ [][NextResolver]_vars

\* the rows of a table that carry the natural key
KeyRows(entRows, tbl, name) == {r \in entRows : r.tbl = tbl /\ r.name = name}

\* C17: no two rows of an entity table share a natural key, and a resolver
\* call whose key exists returns the id of the row that carries it and leaves
\* the table as it was
C17_Theorem ==
    /\ \A r, q \in ents : r.tbl = q.tbl /\ (r.name = q.name \/ r.id = q.id) => r = q
    /\ \A i \in 1..Len(log) :
          log[i].op = "resolve" /\ KeyRows(log[i].before, log[i].tbl, log[i].name) # {} =>
             /\ log[i].after = log[i].before
             /\ \E r \in KeyRows(log[i].before, log[i].tbl, log[i].name) : r.id = log[i].id

\* a call with a sort key different from the one stored found the row
C17_Witness ==
    /\ Len(log) = 2
    /\ log[1].op = "resolve" /\ log[2].op = "resolve"
    /\ log[1].tbl = "authors" /\ log[2].tbl = "authors"
    /\ log[1].name = "Saga" /\ log[2].name = "Saga"
    /\ log[1].after # log[1].before
    /\ \E r \in log[2].before : r.tbl = "authors" /\ r.name = "Saga" /\ r.sort = Some("Saga")
    /\ log[2].after = log[2].before
    /\ ops = 3

-----------------------------------------------------------------------------
(* add_book_to_shelf_core statement by statement, with a statement or the    *)
(* commit returning an error (SpecShelfTx)                                   *)

\* the companion store as the open transaction sees it after find_or_create_shelf,
\* the INSERT of the link, the UPDATE of the shelf, handle_kobo_sync and the
\* DELETE of the sync acknowledgments; a link that exists ends it after the first
shelf_statements(a, book_id, shelf_name, user_id, now_micro) ==
    LET trace(f) ==
            LET s0 == [a EXCEPT !.shelf = f.shelf]
                s1 == [s0 EXCEPT !.book_shelf_link =
                          @ \cup {[book_id |-> book_id, shelf |-> f.id,
                                   order |-> next_order(a.book_shelf_link, f.id),
                                   date_added |-> now_micro]}]
                s2 == [s1 EXCEPT !.shelf = {IF s.id = f.id
                                            THEN [s EXCEPT !.last_modified = now_micro]
                                            ELSE s : s \in @}]
                s3 == handle_kobo_sync(s2, f.id, book_id, user_id, now_micro)
                s4 == [s3 EXCEPT !.kobo_synced_books = {k \in @ : k.user_id # user_id}]
            IN  IF link_exists(a.book_shelf_link, book_id, f.id)
                THEN <<s0>>
                ELSE <<s0, s1, s2, s3, s4>>
    IN  trace(find_or_create_shelf(a.shelf, shelf_name, user_id, now_micro))

\* variant: every statement is committed as it runs
autocommit(a, partial) == partial

\* the Transaction is dropped without commit: the store is as conn.transaction() found it
rollback(a, partial) == a

MaxTxRuns == 2

\* number of the statement that returns an error; 0 for none, one past the
\* last statement for the commit
Faults == 0 .. 6

ShelfTransaction(book_id, shelf_name, username, fault, bound) ==
    /\ cur = Idle /\ ops < bound
    /\ ops' = ops + 1
    /\ \E a \in {TheAppDb}, uid \in {resolve_user_id(username)} :
       \E tr \in {IF is_some(uid)
                  THEN shelf_statements(a, book_id, shelf_name, unwrap(uid), now_local_micro)
                  ELSE <<>>},
          r \in {add_book_to_shelf_core(a, book_id, shelf_name, username, now_local_micro)} :
       LET hit == is_some(uid) /\ fault \in 1 .. Len(tr) + 1
           partial == IF hit /\ fault > 1 THEN tr[fault - 1] ELSE a
           failed == ~is_some(uid) \/ hit
           after == IF failed THEN rollback(a, partial) ELSE r.db
       IN  /\ SetAppDb(after)
           /\ assigned' = IF ~failed /\ r.result = "Added"
                          THEN assigned \cup {<<r.shelf_id, r.order>>} ELSE assigned
           /\ log' = Push([op |-> "shelf-tx", book_id |-> book_id, shelf_name |-> shelf_name,
                           username |-> username, fault |-> fault,
                           result |-> IF failed THEN "Error" ELSE r.result,
                           before |-> a, partial |-> partial, after |-> after,
                           statements |-> Len(tr),
                           last |-> IF tr = <<>> THEN a ELSE tr[Len(tr)]])
    /\ UNCHANGED <<catalogVars, files, downloads, archived_book, cur, born>>

\* two books in the catalog; the admin's shelves "Kobo" (synced) and
\* "Favorites", reading states (none, the admin's for book 1, or alice's for
\* book 2) and sync acknowledgments as Calibre-Web left them
InitShelfTx ==
    /\ \E lib \in {TwoBooks} :
          /\ books = lib.books /\ ents = lib.ents /\ deps = lib.deps
          /\ bookSeq = lib.seq /\ files = lib.files /\ born = lib.born
    /\ shelf = {KoboShelf, FavoritesShelf}
    /\ book_shelf_link \in {{}, {Link(1, 1, 1)}}
    /\ \E s \in {{}, {ReadingState(1, 1, 1, <<1, 1>>)},
                   {[ReadingState(1, 2, 1, <<1, 1>>) EXCEPT !.user_id = 2]}} :
          /\ kobo_reading_state = s
          /\ kobo_bookmark = {Child(r.id, r.id) : r \in s}
          /\ kobo_statistics = {Child(r.id, r.id) : r \in s}
    /\ kobo_synced_books \in {{}, {[user_id |-> 1, book_id |-> 1],
                                   [user_id |-> 2, book_id |-> 1]}}
    /\ downloads = {} /\ archived_book = {}
    /\ assigned = {<<l.shelf, l.order>> : l \in book_shelf_link}
    /\ cur = Idle /\ log = <<>> /\ ops = 0

TxTargets == {<<"Kobo", None>>, <<"Favorites", None>>, <<"New", Some("alice")>>,
              <<"Kobo", Some("bob")>>}

NextShelfTx ==
    \E id \in 1 .. 2, t \in TxTargets, fault \in Faults :
        ShelfTransaction(id, t[1], t[2], fault, MaxTxRuns)

SpecShelfTx == InitShelfTx /\ [][NextShelfTx]_vars

\* C18: when the addition of a book to a collection fails, for an unknown
\* user or at any statement or the commit, the companion store is the one the
\* call found: nothing the call created persists and no sync acknowledgment is
\* gone; a call that succeeds leaves the store of its last statement
C18_Theorem ==
    \A i \in 1..Len(log) :
        log[i].op = "shelf-tx" =>
           /\ log[i].result = "Error" => log[i].after = log[i].before
           /\ log[i].result # "Error" => log[i].after = log[i].last

\* a call for a known user failed after it had created the link and the
\* reading state and deleted a sync acknowledgment, and one failed for "bob"
C18_Witness ==
    /\ Len(log) = 2
    /\ log[1].op = "shelf-tx" /\ log[1].result = "Error" /\ log[1].username = Some("bob")
    /\ log[2].op = "shelf-tx" /\ log[2].result = "Error" /\ log[2].username = None
    /\ log[2].partial.book_shelf_link # log[2].before.book_shelf_link
    /\ log[2].partial.kobo_reading_state # log[2].before.kobo_reading_state
    /\ log[2].partial.kobo_synced_books # log[2].before.kobo_synced_books
    /\ log[2].after = log[2].before
    /\ log[2].before.kobo_synced_books # {}

-----------------------------------------------------------------------------
(* Re-import of a book whose file is missing from the library (SpecBatch) *)

\* C19 (as claimed): when an import matches an existing book, no file of the
\* book is found on disk to hash against, and the comparison of the metadata
\* reports no change, the incoming file is still copied into the book's
\* directory.  An upsert that matched a book returns NoChanges only for equal
\* hashes, which needs a file on disk, or for a comparison without changes.
C19_Counterexample ==
    \A i \in 1..Len(log) :
        (/\ log[i].op = "add" /\ ~log[i].dry_run
         /\ log[i].result = "NoChanges" /\ ~log[i].had_file)
        => log[i].copied

-----------------------------------------------------------------------------
(* The add command with --dry-run (SpecBatch) *)

\* C20 (as claimed): an add run with --dry-run changes neither the catalog
\* store, nor the companion store, nor the library tree
C20_Counterexample ==
    \A i \in 1..Len(log) :
        log[i].op = "add" /\ log[i].dry_run =>
           ~log[i].catalog_changed /\ ~log[i].appdb_changed /\ ~log[i].fs_changed

-----------------------------------------------------------------------------
(* The cover transform (epub.rs, resize_cover_if_needed) and its caller      *)
(* (SpecCover).  A cover is its byte length, the dimensions it decodes to,   *)
(* whether it decodes at all, and the bytes a JPEG of it takes per hundred   *)
(* pixels; the encoder's output length is the image's to decide.             *)

MAX_COVER_SIZE == 200 * 1024

Cover(len, width, height, density, decodable) ==
    [len |-> len, width |-> width, height |-> height, density |-> density,
     decodable |-> decodable, format |-> "original"]

\* scale_factor after n reductions, in units of 10^-8: 0.8 * 0.85^n
scale_factor(n) ==
    CASE n = 0 -> 80000000 [] n = 1 -> 68000000 [] n = 2 -> 57800000
      [] n = 3 -> 49130000 [] n = 4 -> 41760500 [] OTHER -> 35496425

\* ((dimension as f64) * scale_factor) as u32
scaled(dimension, s) ==
    (dimension * (s \div 10000) + (dimension * (s % 10000)) \div 10000) \div 10000

Max(a, b) == IF a >= b THEN a ELSE b

\* img.resize(nwidth, nheight, ..): the largest size of the image's aspect
\* ratio that fits the box
resize(img, nwidth, nheight) ==
    IF nwidth * img.height <= nheight * img.width
    THEN [img EXCEPT !.width = nwidth,
                     !.height = Max(1, (img.height * nwidth + img.width \div 2) \div img.width)]
    ELSE [img EXCEPT !.width = Max(1, (img.width * nheight + img.height \div 2) \div img.height),
                     !.height = nheight]

\* resized.write_to(&mut cursor, ImageFormat::Jpeg)
write_to_jpeg(img) ==
    [img EXCEPT !.len = (img.width * img.height * img.density) \div 100, !.format = "jpeg"]

RECURSIVE attempt(_, _)
\* the loop "for _attempt in 0..5" from its turn n on, and the final resize
attempt(cover_data, n) ==
    LET new_width == scaled(cover_data.width, scale_factor(n))
        new_height == scaled(cover_data.height, scale_factor(n))
        tried(output) ==
            IF output.len <= MAX_COVER_SIZE
            THEN [ok |-> TRUE, data |-> output, attempts |-> n + 1, final |-> FALSE]
            ELSE attempt(cover_data, n + 1)
    IN  IF n >= 5 \/ new_width < 200 \/ new_height < 200
        THEN [ok |-> TRUE,
              data |-> write_to_jpeg(resize(cover_data, Max(new_width, 200),
                                            Max(new_height, 200))),
              attempts |-> n, final |-> TRUE]
        ELSE tried(write_to_jpeg(resize(cover_data, new_width, new_height)))

\* variant: the size test at the top is left out
resize_cover_always(cover_data) ==
    IF ~cover_data.decodable
    THEN [ok |-> FALSE, data |-> cover_data, attempts |-> 0, final |-> FALSE]
    ELSE attempt(cover_data, 0)

\* Ok(bytes) or Err
resize_cover_if_needed(cover_data) ==
    IF cover_data.len <= MAX_COVER_SIZE
    THEN [ok |-> TRUE, data |-> cover_data, attempts |-> 0, final |-> FALSE]
    ELSE IF ~cover_data.decodable
         THEN [ok |-> FALSE, data |-> cover_data, attempts |-> 0, final |-> FALSE]
         ELSE attempt(cover_data, 0)

\* update_book_files, the cover of the EPUB: resized, or the original when the
\* transform fails, is written to cover.jpg
SaveCover ==
    /\ cur.phase = "cover"
    /\ \E r \in {resize_cover_if_needed(cur.cover_data)} :
          /\ log' = Push([op |-> "cover", cover_data |-> cur.cover_data, ok |-> r.ok,
                          returned |-> r.data, attempts |-> r.attempts, final |-> r.final,
                          written |-> IF r.ok THEN r.data ELSE cur.cover_data])
    /\ files' = files \cup {[dir |-> "book", name |-> "cover", ext |-> ".jpg", hash |-> "cover"]}
    /\ cur' = Idle
    /\ UNCHANGED <<catalogVars, appdbVars, assigned, born, ops>>

CoverLengths == {100 * 1024, 200 * 1024, 200 * 1024 + 1, 3000000}
CoverWidths == {240, 1000, 4000}
CoverHeights == {180, 1500, 4000}
CoverDensities == {2, 20, 60}

InitCover ==
    /\ books = {} /\ ents = {} /\ deps = {} /\ bookSeq = 0 /\ files = {}
    /\ shelf = {KoboShelf} /\ book_shelf_link = {}
    /\ kobo_reading_state = {} /\ kobo_bookmark = {} /\ kobo_statistics = {}
    /\ kobo_synced_books = {} /\ downloads = {} /\ archived_book = {}
    /\ \E len \in CoverLengths, width \in CoverWidths, height \in CoverHeights,
          density \in CoverDensities, decodable \in BOOLEAN :
          cur = [phase |-> "cover", cover_data |-> Cover(len, width, height, density, decodable)]
    /\ log = <<>> /\ assigned = {} /\ born = {} /\ ops = 0

NextCover == SaveCover

SpecCover == InitCover /\ [][NextCover]_vars

-----------------------------------------------------------------------------
(* The UPDATE path of the upsert (Spec) *)

LastAdd == cur = Idle /\ Len(log) > 0 /\ log[Len(log)].op = "add"

\* C22 (as claimed): when the upsert returned Updated, the last_modified
\* column of the book holds the time of that run
C22_Counterexample ==
    LastAdd /\ log[Len(log)].result = "Updated" =>
       \A b \in books :
          b.id = log[Len(log)].book_id =>
             b.last_modified = format_timestamp_micro(Now(ops + 2))

-----------------------------------------------------------------------------
(* The catalog upsert on its own: calibre::add_book_to_db called on a library *)
(* tree without files, so that the comparison of the metadata always runs     *)
(* (SpecUpsert)                                                               *)

MaxUpserts == 3

\* the files of InputFiles and three more of the book "Dune" by John Doe that
\* differ from one another in one field
UpsertInputs ==
    InputFiles \cup
    { EpubFile("Dune", "John Doe", "h10", ".epub", Some(100), Some("Ace"), None, None, None,
               FALSE, None, None),
      EpubFile("Dune", "John Doe", "h11", ".epub", Some(100), Some("Ace"), None, Some(3), None,
               FALSE, None, None),
      EpubFile("Dune", "John Doe", "h12", ".epub", Some(100), Some("Ace"), Some("Saga"), Some(3),
               None, FALSE, None, None),
      EpubFile("Dune", "John Doe", "h13", ".epub", Some(100), Some("Tor"), Some("Saga"), Some(3),
               None, FALSE, None, None) }

NoChange ==
    [pubdate_changed |-> FALSE, series_index_changed |-> FALSE,
     publisher_changed |-> FALSE, series_changed |-> FALSE]

LinksOf(dps, tbl, book_id) == {d \in dps : d.tbl = tbl /\ d.book = book_id}

Upsert(metadata) ==
    /\ cur = Idle /\ ops < MaxUpserts
    /\ ops' = ops + 1
    /\ \E r \in {add_book_to_db(books, ents, deps, bookSeq, files, metadata, now_utc)},
          found \in {existing_book(books, metadata)} :
       \E ch \in {IF found = {} THEN NoChange
                  ELSE determine_changes(
                           get_existing_book_data([ents |-> ents, deps |-> deps],
                                                  first_row(found)), metadata)} :
          /\ books' = r.books /\ ents' = r.ents /\ deps' = r.deps /\ bookSeq' = r.seq
          /\ born' = IF r.result = "Created"
                     THEN born \cup {<<r.book_id, metadata.title,
                                       get_author_sort(metadata.author), r.book_path>>}
                     ELSE born
          /\ log' = Push([op |-> "upsert", input |-> metadata, result |-> r.result,
                          book_id |-> r.book_id, now_str |-> format_timestamp_micro(now_utc),
                          changes |-> ch,
                          columns |-> IF r.result = "Updated"
                                      THEN update_statement_columns(ch, metadata) ELSE {},
                          tables |-> IF r.result = "Updated" THEN relinked_tables(ch) ELSE {},
                          before |-> {b \in books : b.id = r.book_id},
                          after |-> {b \in r.books : b.id = r.book_id},
                          deps_before |-> {d \in deps : d.book = r.book_id},
                          deps_after |-> {d \in r.deps : d.book = r.book_id},
                          ents_before |-> ents, ents_after |-> r.ents])
    /\ UNCHANGED <<files, appdbVars, cur, assigned>>

NextUpsert == \E metadata \in UpsertInputs : Upsert(metadata)

SpecUpsert == Init /\ [][NextUpsert]_vars

\* the book row of an upsert record before and after it
RowBefore(e) == CHOOSE b \in e.before : TRUE
RowAfter(e) == CHOOSE b \in e.after : TRUE

\* C23: an UPDATE names the pubdate column only when pubdate_changed is set
\* and the series_index column only when series_index_changed is set, and
\* runs statements on the publisher (series) link table only when
\* publisher_changed (series_changed) is set; a column it does not name and
\* the links of a table it does not touch are afterwards as they were
C23_Theorem ==
    \A i \in 1..Len(log) :
        log[i].op = "upsert" /\ log[i].result = "Updated" =>
           /\ "pubdate" \in log[i].columns => log[i].changes.pubdate_changed
           /\ "series_index" \in log[i].columns => log[i].changes.series_index_changed
           /\ "books_publishers_link" \in log[i].tables => log[i].changes.publisher_changed
           /\ "books_series_link" \in log[i].tables => log[i].changes.series_changed
           /\ "pubdate" \notin log[i].columns =>
                 RowAfter(log[i]).pubdate = RowBefore(log[i]).pubdate
           /\ "series_index" \notin log[i].columns =>
                 RowAfter(log[i]).series_index = RowBefore(log[i]).series_index
           /\ \A tbl \in {"books_publishers_link", "books_series_link"} \ log[i].tables :
                 LinksOf(log[i].deps_after, tbl, log[i].book_id)
                    = LinksOf(log[i].deps_before, tbl, log[i].book_id)

\* an update in which only the series index changed: the pubdate and the
\* publisher link of the book stayed
C23_Witness ==
    /\ Len(log) = 2
    /\ log[2].op = "upsert" /\ log[2].result = "Updated"
    /\ log[2].changes = [NoChange EXCEPT !.series_index_changed = TRUE]
    /\ log[2].columns = {"last_modified", "series_index"}
    /\ log[2].tables = {}
    /\ RowAfter(log[2]).series_index # RowBefore(log[2]).series_index
    /\ LinksOf(log[2].deps_after, "books_publishers_link", log[2].book_id) # {}

\* the link rows of the book in link_tbl are: none when the new name is
\* absent, else one row that points at the ent_tbl row of that name
LinkedTo(e, link_tbl, ent_tbl, new_name) ==
    LET links == LinksOf(e.deps_after, link_tbl, e.book_id)
    IN  IF is_some(new_name)
        THEN /\ Cardinality(links) = 1
             /\ \A d \in links :
                   \E r \in e.ents_after :
                      r.tbl = ent_tbl /\ r.id = d.ref /\ r.name = unwrap(new_name)
        ELSE links = {}

\* C24: after an UPDATE in which the publisher (series) changed, the book has
\* one publisher (series) link row, to the entity named by the new value, or
\* none when the new value is absent, and every entity row that existed
\* before is still there
C24_Theorem ==
    \A i \in 1..Len(log) :
        log[i].op = "upsert" /\ log[i].result = "Updated" =>
           /\ log[i].changes.publisher_changed =>
                 LinkedTo(log[i], "books_publishers_link", "publishers", log[i].input.publisher)
           /\ log[i].changes.series_changed =>
                 LinkedTo(log[i], "books_series_link", "series", log[i].input.series)
           /\ log[i].ents_before \subseteq log[i].ents_after

\* the publisher changed from one that was linked to another that had no row
\* yet, and then to none
C24_Witness ==
    /\ Len(log) = 2
    /\ log[1].op = "upsert" /\ log[1].result = "Updated" /\ log[1].changes.publisher_changed
    /\ LinksOf(log[1].deps_before, "books_publishers_link", log[1].book_id) # {}
    /\ log[1].input.publisher = Some("Tor")
    /\ log[1].ents_after # log[1].ents_before
    /\ log[2].op = "upsert" /\ log[2].result = "Updated" /\ log[2].changes.publisher_changed
    /\ log[2].input.publisher = None
    /\ LinksOf(log[2].deps_after, "books_publishers_link", log[2].book_id) = {}
    /\ \E r \in ents : r.tbl = "publishers" /\ r.name = "Tor"

LastUpsert == Len(log) > 0 /\ log[Len(log)].op = "upsert"

\* C25 (as claimed): after a CREATE or an UPDATE from metadata M, the
\* comparison of the stored record with M reports no changed field, also when
\* M has no pubdate, no publisher or no series
C25_Counterexample ==
    LastUpsert /\ log[Len(log)].result \in {"Created", "Updated"} =>
       \A b \in books :
          b.id = log[Len(log)].book_id =>
             determine_changes(get_existing_book_data([ents |-> ents, deps |-> deps], b),
                               log[Len(log)].input) = NoChange

-----------------------------------------------------------------------------
(* The order of the three steps of one import (Spec) *)

\* C26: within an import the library tree is changed only by the file step,
\* which is entered from the upsert's commit when no shelf was asked for and
\* otherwise only from a shelf step that committed the membership; a shelf
\* step that fails ends the import with the tree as it was
C26_Theorem ==
    [][/\ (cur # Idle \/ cur' # Idle) /\ files' # files => cur.phase = "files"
       /\ cur = Idle /\ cur' # Idle =>
             /\ cur'.phase = (IF is_some(cur'.shelf_name) THEN "shelf" ELSE "files")
             /\ \E b \in books' : b.id = cur'.book_id
       /\ cur.phase = "shelf" =>
             /\ files' = files
             /\ \/ /\ cur' = Idle /\ ~log'[Len(log')].ok
                   /\ book_shelf_link' = book_shelf_link
                \/ /\ cur'.phase = "files"
                   /\ \E l \in book_shelf_link', s \in shelf' :
                         /\ l.book_id = cur.book_id /\ l.shelf = s.id
                         /\ s.name = unwrap(cur.shelf_name)]_vars

\* an import that failed at the shelf step left the library tree empty, and
\* the next one, with a shelf, placed its file
C26_Witness ==
    /\ cur = Idle /\ Len(log) = 2
    /\ log[1].op = "add" /\ ~log[1].ok /\ log[1].result = "Created"
    /\ log[1].input.ext = ".epub"
    /\ log[2].op = "add" /\ log[2].ok /\ log[2].placed
    /\ book_shelf_link # {}
    /\ \A f \in files : f.dir = log[2].book_path

-----------------------------------------------------------------------------
(* An import for a user the companion store does not know (SpecBatch) *)

\* the import of the record failed at the shelf step for want of the user
UnknownUser(e) ==
    /\ e.op = "add" /\ ~e.dry_run /\ ~e.ok /\ e.result # "Error"
    /\ is_some(e.shelf_name) /\ ~is_some(resolve_user_id(e.username))

\* C27 (as claimed): an import that fails because the named user does not
\* exist leaves the catalog store as it was
C27_Counterexample ==
    \A i \in 1..Len(log) : UnknownUser(log[i]) => ~log[i].catalog_changed

-----------------------------------------------------------------------------
(* The companion-store statements of delete_book one by one, with one of     *)
(* them returning an error (SpecDeleteTx)                                    *)

\* the orders in which the rows of a SELECT without ORDER BY may come
Orders(S) ==
    {s \in [1 .. Cardinality(S) -> S] : \A i, j \in 1 .. Cardinality(S) : i # j => s[i] # s[j]}

RECURSIVE shelf_deletes(_, _, _)
\* the store after each "DELETE FROM shelf WHERE id = ?1" of the loop over shelf_ids
shelf_deletes(a, shelf_ids, i) ==
    IF i > Len(shelf_ids) THEN <<>>
    ELSE IF \E l \in a.book_shelf_link : l.shelf = shelf_ids[i]
    THEN shelf_deletes(a, shelf_ids, i + 1)
    ELSE <<[a EXCEPT !.shelf = {s \in @ : s.id # shelf_ids[i]}]>>
         \o shelf_deletes([a EXCEPT !.shelf = {s \in @ : s.id # shelf_ids[i]}], shelf_ids, i + 1)

\* the store after each DELETE that delete_book executes on the companion store
delete_statements(a, book_id, shelf_ids) ==
    LET unlinked(s1) == <<s1>> \o shelf_deletes(s1, shelf_ids, 1)
    IN  unlinked([a EXCEPT !.book_shelf_link = {l \in @ : l.book_id # book_id}])

\* conn.execute on the plain Connection: each statement is its own transaction
executed(a, partial) == partial

DeleteFaults == 0 .. 3

\* delete_book with the companion store, whose statement number fault fails
DeleteBookFault(book_id, fault, bound) ==
    /\ cur = Idle /\ ops < bound
    /\ ops' = ops + 1
    /\ \E bks \in {RepairedBooks}, a0 \in {RepairedAppDb} :
       \E shelf_ids \in Orders({l.shelf : l \in {k \in a0.book_shelf_link :
                                                  k.book_id = book_id}}) :
       \E tr \in {delete_statements(a0, book_id, shelf_ids)},
          a \in {delete_book_appdb(a0, book_id)} :
       LET info == {b \in bks : b.id = book_id}
           book_path_str == IF info = {} THEN "" ELSE first_row(info).path
           c == delete_book_catalog(bks, deps, book_id)
           refused == delete_refused(Cardinality(bks) - Cardinality(c.books), info # {})
           hit == ~refused /\ fault \in 1 .. Len(tr)
           partial == IF hit /\ fault > 1 THEN tr[fault - 1] ELSE a0
           after == IF refused THEN a0 ELSE IF hit THEN executed(a0, partial) ELSE a.db
           ok == ~refused /\ ~hit /\ a.ok
       IN  /\ books' = c.books /\ deps' = c.deps
           /\ SetAppDb(after)
           /\ assigned' = {p \in assigned : \E s \in after.shelf : s.id = p[1]}
           /\ files' = IF ok THEN delete_book_files(files, book_path_str) ELSE files
           /\ log' = Push([op |-> "delete-tx", book_id |-> book_id, found |-> info # {},
                           fault |-> fault, hit |-> hit, ok |-> ok, statements |-> Len(tr),
                           before |-> a0, after |-> after, last |-> tr[Len(tr)],
                           catalog_deleted |-> c.books # bks])
    /\ UNCHANGED <<ents, bookSeq, downloads, archived_book, cur, born>>

NextDeleteTx ==
    \E id \in DeleteIds, fault \in DeleteFaults : DeleteBookFault(id, fault, MaxDeleteRuns)

SpecDeleteTx == InitDelete /\ [][NextDeleteTx]_vars

\* C28 (as claimed): when a companion-store statement of a deletion fails,
\* none of the membership links and collections the deletion removed before
\* it is gone
C28_Counterexample ==
    \A i \in 1..Len(log) :
        log[i].op = "delete-tx" /\ log[i].hit =>
           /\ log[i].after.book_shelf_link = log[i].before.book_shelf_link
           /\ log[i].after.shelf = log[i].before.shelf

-----------------------------------------------------------------------------
(* A command killed between its catalog commit and its companion-store
   writes, followed by clean-db (SpecCrash) *)

MaxCrashOps == 2

\* a re-import of the first book of the library and the import of a new book
CrashInputs ==
    { InputByHash("h1"),
      EpubFile("Ubik", "John Doe", "h14", ".epub", Some(100), None, None, None, None, FALSE,
               None, None) }

CrashShelfArgs == {<<None, None>>, <<Some("Kobo"), None>>}

\* the process dies inside add_book_flow: add_book_to_db has committed, the
\* shelf step (phase "shelf") or the file placement (phase "files") never runs
AddInterrupted ==
    /\ cur.phase \in {"shelf", "files"}
    /\ cur' = Idle
    /\ log' = Push([op |-> "interrupted", command |-> "add", phase |-> cur.phase,
                    book_id |-> cur.book_id, result |-> cur.result,
                    links |-> {l \in book_shelf_link : l.book_id = cur.book_id},
                    shelves |-> {l.shelf : l \in {k \in book_shelf_link :
                                                     k.book_id = cur.book_id}},
                    catalog_changed |-> cur.writes > 0])
    /\ UNCHANGED <<catalogVars, files, appdbVars, downloads, archived_book, assigned,
                   born, ops>>

\* the process dies inside delete_book right after tx.commit() of the catalog
\* transaction: no companion-store statement and no file removal has run
DeleteInterrupted(book_id, bound) ==
    /\ cur = Idle /\ ops < bound
    /\ ops' = ops + 1
    /\ \E bks \in {RepairedBooks}, a0 \in {RepairedAppDb} :
       \E c \in {delete_book_catalog(bks, deps, book_id)} :
           /\ books' = c.books /\ deps' = c.deps
           /\ SetAppDb(a0)
           /\ log' = Push([op |-> "interrupted", command |-> "delete", phase |-> "catalog",
                           book_id |-> book_id, result |-> "Deleted",
                           links |-> {l \in a0.book_shelf_link : l.book_id = book_id},
                           shelves |-> {l.shelf : l \in {k \in a0.book_shelf_link :
                                                            k.book_id = book_id}},
                           catalog_changed |-> c.books # bks])
    /\ UNCHANGED <<ents, bookSeq, files, downloads, archived_book, assigned, cur, born>>

NextCrash ==
    \/ \E m \in CrashInputs, sa \in CrashShelfArgs : AddUpsert(m, sa[1], sa[2], MaxCrashOps)
    \/ AddShelf
    \/ AddFiles
    \/ AddInterrupted
    \/ \E id \in DeleteIds : DeleteInterrupted(id, MaxCrashOps)
    \/ CleanDb(TRUE, MaxCrashOps)

SpecCrash == InitDelete /\ [][NextCrash]_vars

\* the last two commands: one that was killed, then a complete clean-db
CleanAfterInterruption ==
    /\ cur = Idle /\ Len(log) = 2
    /\ log[1].op = "interrupted" /\ log[2].op = "clean-db" /\ log[2].with_appdb

\* C29: when an import or a deletion was killed after its catalog transaction
\* committed and clean-db with the companion store then runs to completion,
\* no membership link, reading state or sync acknowledgment names a book id
\* that is not in the catalog, no bookmark or statistics row belongs to a
\* reading state of such a book, and no collection is left without a member.
C29_Theorem ==
    CleanAfterInterruption =>
        /\ \A l \in book_shelf_link : l.book_id \in BookIdsOf(books)
        /\ \A r \in kobo_reading_state : r.book_id \in BookIdsOf(books)
        /\ \A r \in kobo_synced_books : r.book_id \in BookIdsOf(books)
        /\ \A c \in kobo_bookmark \cup kobo_statistics :
              ~\E t \in log[2].states_before :
                  t[1] = c.kobo_reading_state_id /\ t[2] \notin BookIdsOf(books)
        /\ \A s \in shelf : \E l \in book_shelf_link : l.shelf = s.id

\* a deletion killed after the catalog commit left links of the deleted book
\* behind; the pass removed them and a collection they were the last members of
C29_Witness ==
    /\ CleanAfterInterruption
    /\ log[1].command = "delete" /\ log[1].catalog_changed
    /\ log[1].links # {}
    /\ \E id \in log[1].shelves : ~\E s \in shelf : s.id = id
    /\ shelf # {}
    /\ log[2].appdb_changed

-----------------------------------------------------------------------------
(* Reading state of a book added to a synced collection (SpecShelfTx) *)

\* the membership links a call inserted into a collection with kobo_sync set
SyncedLinks(e) ==
    {l \in e.after.book_shelf_link \ e.before.book_shelf_link :
        \E s \in e.after.shelf : s.id = l.shelf /\ s.kobo_sync}

OwnerOf(a, shelf_id) == first_row({s \in a.shelf : s.id = shelf_id}).user_id

StatesOf(a, user_id, book_id) ==
    {r \in a.kobo_reading_state : r.user_id = user_id /\ r.book_id = book_id}

ChildrenOf(children, reading_state_id) ==
    {c \in children : c.kobo_reading_state_id = reading_state_id}

\* C30: when an addition inserts a membership link into a collection with
\* kobo_sync set and the store held no reading state for the collection's
\* owner and the book, the store afterwards holds exactly one, with exactly one
\* statistics row and exactly one bookmark row, and its current_bookmark is
\* the id of that bookmark; when a reading state for the owner and the book
\* was there, no reading state, bookmark or statistics row is created.
C30_Theorem ==
    \A i \in 1..Len(log) :
        log[i].op = "shelf-tx" /\ log[i].result = "Added" =>
           \A l \in SyncedLinks(log[i]) :
              LET owner == OwnerOf(log[i].after, l.shelf)
                  was == StatesOf(log[i].before, owner, l.book_id)
                  now == StatesOf(log[i].after, owner, l.book_id)
              IN  IF was = {}
                  THEN \E r \in now :
                          /\ now = {r}
                          /\ Cardinality(ChildrenOf(log[i].after.kobo_statistics, r.id)) = 1
                          /\ \E b \in log[i].after.kobo_bookmark :
                                /\ ChildrenOf(log[i].after.kobo_bookmark, r.id) = {b}
                                /\ r.current_bookmark = b.id
                  ELSE /\ log[i].after.kobo_reading_state = log[i].before.kobo_reading_state
                       /\ log[i].after.kobo_bookmark = log[i].before.kobo_bookmark
                       /\ log[i].after.kobo_statistics = log[i].before.kobo_statistics

\* book 1 went onto the synced collection while its owner had a reading
\* state for it, and nothing was created; then book 2 went onto it and got its
\* reading state, bookmark and statistics rows
C30_Witness ==
    /\ Len(log) = 2
    /\ log[1].op = "shelf-tx" /\ log[1].result = "Added" /\ log[1].book_id = 1
    /\ SyncedLinks(log[1]) # {}
    /\ StatesOf(log[1].before, 1, 1) # {}
    /\ log[1].after.kobo_reading_state = log[1].before.kobo_reading_state
    /\ log[2].op = "shelf-tx" /\ log[2].result = "Added" /\ log[2].book_id = 2
    /\ SyncedLinks(log[2]) # {}
    /\ StatesOf(log[2].before, 1, 2) = {}
    /\ Cardinality(log[2].after.kobo_reading_state) = 2
    /\ Cardinality(log[2].after.kobo_bookmark) = 2

-----------------------------------------------------------------------------
(* Collections are unique per name and owner (SpecShelf) *)

ShelvesNamed(shelves, name, owner) ==
    {s \in shelves : s.name = name /\ s.user_id = owner}

UniqueShelves(shelves) ==
    \A s, t \in shelves : (s.name = t.name /\ s.user_id = t.user_id) => s = t

\* the owner an add names: user 1 without a username, else the user of that name
OwnerNamed(username) ==
    IF username = None THEN 1
    ELSE (CHOOSE u \in user : u.name = unwrap(username)).id

\* the step is an add-to-shelf call that returned Ok
ShelfAddStep ==
    /\ ops' # ops
    /\ log'[Len(log')].op = "add-to-shelf"
    /\ log'[Len(log')].result # "Error"

\* C31: the collections start with unique (name, owner) pairs and stay so
\* through every add; an add that returns Ok puts the book on the one
\* collection of the given name whose owner is the named user, or user 1 when
\* no username is given: the row that had that name and owner if there was
\* one, with no row created, else a single new row.
C31_Theorem ==
    /\ UniqueShelves(shelf)
    /\ [][/\ UniqueShelves(shelf')
          /\ ShelfAddStep =>
                LET e == log'[Len(log')]
                    owner == OwnerNamed(e.username)
                    was == ShelvesNamed(shelf, e.shelf_name, owner)
                    now == ShelvesNamed(shelf', e.shelf_name, owner)
                IN  /\ \E s \in now : now = {s} /\ s.id = e.shelf_id
                    /\ was # {} => {s.id : s \in shelf'} = {s.id : s \in shelf}
                                   /\ {s.id : s \in now} = {s.id : s \in was}
                    /\ was = {} => Cardinality(shelf') = Cardinality(shelf) + 1
                                   /\ {s.id : s \in shelf} \subseteq {s.id : s \in shelf'}
       ]_vars

\* alice got her own "Favorites" next to the admin's, then a second book went
\* onto it, and the store holds two collections of that name
C31_Witness ==
    /\ Len(log) = 2
    /\ log[1].op = "add-to-shelf" /\ log[1].result = "Added"
    /\ log[1].shelf_name = "Favorites" /\ log[1].username = Some("alice")
    /\ log[2].op = "add-to-shelf" /\ log[2].result = "Added"
    /\ log[2].shelf_name = "Favorites" /\ log[2].username = Some("alice")
    /\ log[2].shelf_id = log[1].shelf_id
    /\ Cardinality({s \in shelf : s.name = "Favorites"}) = 2
    /\ Cardinality(ShelvesNamed(shelf, "Favorites", 2)) = 1

-----------------------------------------------------------------------------
(* Reading states, bookmarks and statistics after fix-kobo-sync (SpecRepair) *)

\* the reading states the last pass found for the owner and book of r
GroupBefore(r) ==
    {q \in log[Len(log)].before.kobo_reading_state :
        q.user_id = r.user_id /\ q.book_id = r.book_id}

\* the reading states the last pass found and removed
RemovedStates ==
    {q \in log[Len(log)].before.kobo_reading_state :
        ~\E r \in kobo_reading_state : r.id = q.id}

\* C32: after a repair pass that completed, no two reading states share their
\* owner and book; of the reading states the pass found for an owner and a
\* book, the one of the highest id is there and the others are gone, and no
\* bookmark is left that references a reading state the pass removed.
C32_Theorem ==
    LastFix =>
        /\ \A r, q \in kobo_reading_state :
              (r.user_id = q.user_id /\ r.book_id = q.book_id) => r = q
        /\ \A q \in log[Len(log)].before.kobo_reading_state :
              (\E r \in kobo_reading_state : r.id = q.id)
                  <=> (\A p \in GroupBefore(q) : p.id <= q.id)
        /\ \A b \in kobo_bookmark :
              ~\E q \in RemovedStates : b.kobo_reading_state_id = q.id

\* the pass found two reading states of one owner and book, the lower one with
\* a bookmark, and removed that one together with its bookmark
C32_Witness ==
    /\ LastFix
    /\ \E q \in RemovedStates :
          /\ \E p \in GroupBefore(q) : p.id > q.id
          /\ \E b \in log[Len(log)].before.kobo_bookmark : b.kobo_reading_state_id = q.id
    /\ Cardinality(kobo_reading_state) = 1

\* the bookmarks of reading state r in a store's kobo_bookmark table
BookmarksOf(bookmarks, r) == {b \in bookmarks : b.kobo_reading_state_id = r.id}

\* r as the last pass found it: the empty set for a row the pass inserted
FoundAs(r) == {q \in log[Len(log)].before.kobo_reading_state : q.id = r.id}

\* C33: after a repair pass that completed, from whatever store it started,
\* every reading state has a bookmark that references it and a current_bookmark
\* that is not NULL; a reading state that had no bookmark points at a bookmark
\* of its own that the pass inserted, and a reading state that had a bookmark
\* and a NULL pointer points at a bookmark of its own.
C33_Theorem ==
    LastFix =>
        \A r \in kobo_reading_state :
            LET had == BookmarksOf(log[Len(log)].before.kobo_bookmark, r)
                own == BookmarksOf(kobo_bookmark, r)
            IN  /\ own # {}
                /\ r.current_bookmark # 0
                /\ had = {} =>
                      \E b \in own : /\ b.id = r.current_bookmark
                                     /\ b \notin log[Len(log)].before.kobo_bookmark
                /\ (had # {} /\ \A q \in FoundAs(r) : q.current_bookmark = 0) =>
                      \E b \in own : b.id = r.current_bookmark

\* the pass found a reading state without bookmark whose pointer named a
\* bookmark that is not there, and another one with a bookmark and a NULL pointer
C33_Witness ==
    /\ LastFix
    /\ \E r \in kobo_reading_state :
          /\ BookmarksOf(log[Len(log)].before.kobo_bookmark, r) = {}
          /\ \E q \in FoundAs(r) : q.current_bookmark # 0
    /\ \E r \in kobo_reading_state :
          /\ BookmarksOf(log[Len(log)].before.kobo_bookmark, r) # {}
          /\ \E q \in FoundAs(r) : q.current_bookmark = 0

\* C34 (as claimed): after a repair pass that completed, no statistics row is
\* left that references a reading state the pass removed as a duplicate.  (The
\* pass does not touch the statistics rows that referenced no reading state
\* when it started; they are outside this statement.)
C34_Counterexample ==
    LastFix =>
        \A k \in kobo_statistics :
            ~\E q \in RemovedStates : q.id = k.kobo_reading_state_id

-----------------------------------------------------------------------------
(* What the orphan pass leaves of the bookmarks and statistics (SpecCleanup) *)

\* the rows of a child table that the last pass found under a reading state
\* whose book is in the catalog
ChildrenOfValidStates(children) ==
    {c \in children :
        \E t \in log[Len(log)].states_before :
            t[1] = c.kobo_reading_state_id /\ t[2] \in BookIdsOf(books)}

\* C35 (as claimed): after the orphan pass ran with the companion store, every
\* bookmark and every statistics row of a reading state whose book is in the
\* catalog is still there, whether the catalog holds no, one or several books.
C35_Counterexample ==
    (LastClean /\ log[Len(log)].with_appdb) =>
        /\ ChildrenOfValidStates(log[Len(log)].bookmarks_before) \subseteq kobo_bookmark
        /\ ChildrenOfValidStates(log[Len(log)].statistics_before) \subseteq kobo_statistics

-----------------------------------------------------------------------------
(* add-to-shelf and the catalog (SpecShelf) *)

\* C36 (as claimed): an add-to-shelf call that has just inserted a membership
\* link did so for a book id that is in the catalog, with or without a catalog
\* file on the command line.
C36_Counterexample ==
    (Len(log) > 0 /\ log[Len(log)].op = "add-to-shelf" /\ log[Len(log)].result = "Added")
        => /\ log[Len(log)].book_id \in BookIdsOf(books)
           /\ \A l \in book_shelf_link :
                 l.shelf = log[Len(log)].shelf_id /\ l.order = log[Len(log)].order
                     => l.book_id \in BookIdsOf(books)

-----------------------------------------------------------------------------
(* The has_cover flag and the cover file (Spec) *)

HasCoverFile(fl, path) ==
    \E f \in fl : f.dir = path /\ f.name = "cover" /\ f.ext = ".jpg"

\* every command so far was an import that completed without error
OnlySuccessfulImports ==
    /\ cur = Idle /\ Len(log) = ops
    /\ \A i \in 1..Len(log) : log[i].op = "add" /\ log[i].ok

\* C37 (as claimed): after a sequence of successful imports, every book whose
\* has_cover flag is set has a cover.jpg in its directory.
C37_Counterexample ==
    OnlySuccessfulImports =>
        \A b \in books : b.has_cover => HasCoverFile(files, b.path)

-----------------------------------------------------------------------------
(* The sort keys of author names and titles (SpecSortKeys) *)

\* a title as the sequence of its characters
The_ == <<"T", "h", "e", " ">>
A_ == <<"A", " ">>
An_ == <<"A", "n", " ">>

to_lowercase_char(c) ==
    CASE c = "T" -> "t" [] c = "H" -> "h" [] c = "E" -> "e" [] c = "A" -> "a"
      [] c = "N" -> "n" [] c = "L" -> "l" [] c = "G" -> "g" [] OTHER -> c

\* str::to_lowercase
to_lowercase(s) == [i \in 1..Len(s) |-> to_lowercase_char(s[i])]

\* str::starts_with
starts_with(s, prefix) == Len(s) >= Len(prefix) /\ SubSeq(s, 1, Len(prefix)) = prefix

\* str::trim
RECURSIVE trim_chars(_)
trim_chars(s) ==
    IF s = <<>> THEN s
    ELSE IF s[1] = " " THEN trim_chars(Tail(s))
    ELSE IF s[Len(s)] = " " THEN trim_chars(SubSeq(s, 1, Len(s) - 1))
    ELSE s

\* calibre::get_title_sort, the sort key add_book_to_db passes to the INSERT
get_title_sort(title) ==
    LET t == trim_chars(title)
        articles == <<The_, A_, An_>>
        found == {i \in 1..Len(articles) :
                     Len(t) > Len(articles[i]) /\ starts_with(t, articles[i])}
        article == articles[CHOOSE i \in found : \A j \in found : i <= j]
    IN  IF found = {} THEN t
        ELSE SubSeq(t, Len(article) + 1, Len(t)) \o <<",", " ">> \o trim_chars(article)

\* db::title_sort_logic, the SQL function title_sort the catalog triggers call
title_sort_logic(title) ==
    LET articles == <<to_lowercase(The_), to_lowercase(A_), to_lowercase(An_),
                      <<"l", "e", " ">>, <<"l", "a", " ">>, <<"l", "e", "s", " ">>,
                      <<"e", "l", " ">>, <<"l", "o", "s", " ">>, <<"l", "a", "s", " ">> >>
        lower_title == to_lowercase(title)
        found == {i \in 1..Len(articles) : starts_with(lower_title, articles[i])}
        len == Len(articles[CHOOSE i \in found : \A j \in found : i <= j])
    IN  IF found = {} THEN title
        ELSE SubSeq(title, len + 1, Len(title)) \o <<",", " ">> \o SubSeq(title, 1, len - 1)

MaxTokens == 4

NameTokens == {"F.", "Scott", "Fitzgerald", "King", "Jr.", "iii"}

\* the display names, as their whitespace-separated tokens
RECURSIVE AuthorNames(_)
AuthorNames(n) ==
    IF n = 0 THEN {<<>>}
    ELSE AuthorNames(n - 1) \cup
         {Append(p, t) : p \in {q \in AuthorNames(n - 1) : Len(q) = n - 1}, t \in NameTokens}

TitleLeads ==
    { <<>>, The_, A_, An_, to_lowercase(The_), to_lowercase(A_), to_lowercase(An_),
      <<"T", "H", "E", " ">>, <<"L", "e", " ">>, <<"T", "h", "e">>, <<"A", "n", "n", " ">>,
      <<" ", "A", " ">> }

TitleRests ==
    { <<>>, <<"G">>, <<"G", "a", "t", "s", "b", "y">>, <<"a", " ", "G">>,
      <<"t", "h", "e", " ", "G">>, <<"G", " ">> }

Titles == {lead \o rest : lead \in TitleLeads, rest \in TitleRests}

AuthorSort ==
    /\ cur.phase = "author"
    /\ log' = Push([op |-> "author-sort", parts |-> cur.parts,
                    result |-> get_author_sort_parts(cur.parts)])
    /\ cur' = Idle
    /\ UNCHANGED <<catalogVars, files, appdbVars, downloads, archived_book, assigned,
                   born, ops>>

TitleSort ==
    /\ cur.phase = "title"
    /\ log' = Push([op |-> "title-sort", title |-> cur.title,
                    created |-> get_title_sort(cur.title),
                    catalog |-> title_sort_logic(cur.title)])
    /\ cur' = Idle
    /\ UNCHANGED <<catalogVars, files, appdbVars, downloads, archived_book, assigned,
                   born, ops>>

InitSortKeys ==
    /\ books = {} /\ ents = {} /\ deps = {} /\ bookSeq = 0 /\ files = {}
    /\ shelf = {KoboShelf} /\ book_shelf_link = {}
    /\ kobo_reading_state = {} /\ kobo_bookmark = {} /\ kobo_statistics = {}
    /\ kobo_synced_books = {} /\ downloads = {} /\ archived_book = {}
    /\ \/ \E parts \in AuthorNames(MaxTokens) : cur = [phase |-> "author", parts |-> parts]
       \/ \E title \in Titles : cur = [phase |-> "title", title |-> title]
    /\ log = <<>> /\ assigned = {} /\ born = {} /\ ops = 0

NextSortKeys == AuthorSort \/ TitleSort

SpecSortKeys == InitSortKeys /\ [][NextSortKeys]_vars

\* the suffixes the claim names, compared without regard to case
IsSuffix(t) == to_ascii_lowercase(t) \in {"jr.", "sr.", "ii", "iii", "iv"}

\* C38 (as claimed): for a name of three or more tokens whose last token is a
\* suffix, the sort key is the surname with the suffix attached, a comma and
\* the leading tokens ("Scott King Jr." gives "King Jr., Scott"); for a name of
\* two or more tokens without a suffix it is the last token, a comma and the
\* leading tokens; a name of one token is returned as it is.
C38_Counterexample ==
    \A i \in 1..Len(log) :
        log[i].op = "author-sort" =>
            LET parts == log[i].parts
                n == Len(parts)
            IN  /\ (n >= 3 /\ IsSuffix(parts[n])) =>
                      log[i].result = parts[n - 1] \o " " \o parts[n] \o ", "
                                      \o join(SubSeq(parts, 1, n - 2), " ")
                /\ (n >= 2 /\ \A k \in 1..n : ~IsSuffix(parts[k])) =>
                      log[i].result = parts[n] \o ", " \o join(SubSeq(parts, 1, n - 1), " ")
                /\ n = 1 => log[i].result = parts[1]

\* the leading article of a title, compared without regard to case: the empty
\* set when the title begins with none of "the ", "a ", "an "
LeadingArticle(title) ==
    {a \in {to_lowercase(The_), to_lowercase(A_), to_lowercase(An_)} :
        starts_with(to_lowercase(title), a)}

\* C39 (as claimed): for a title without surrounding blanks that begins,
\* compared without regard to case, with "the ", "a " or "an " and has text
\* after it, the sort key of the create path is the rest of the title, a comma
\* and the article, and the title_sort function of the catalog layer yields
\* the same key; every other such title is its own sort key.
C39_Counterexample ==
    \A i \in 1..Len(log) :
        (log[i].op = "title-sort" /\ trim_chars(log[i].title) = log[i].title) =>
            LET title == log[i].title
            IN  /\ \A a \in LeadingArticle(title) :
                      Len(title) > Len(a) =>
                         /\ log[i].created = SubSeq(title, Len(a) + 1, Len(title))
                                             \o <<",", " ">> \o SubSeq(title, 1, Len(a) - 1)
                         /\ log[i].catalog = log[i].created
                /\ LeadingArticle(title) = {} => log[i].created = title

====
